---- MODULE Spec2Model ----
(***************************************************************************)
(* Scene Stitcher: the layout canvas (viewport transform, snap engine,     *)
(* pointer state machine) of scripts/canvas-layout.mjs and the merge       *)
(* engine (mergeScenes).                                                   *)
(*                                                                         *)
(* Numbers.  A JavaScript Number is an IEEE-754 double: + - * / each       *)
(* return the representable value nearest to the exact result.  The model  *)
(* keeps the rounding and scales the precision down: a number is an        *)
(* integer count of 1/Q units, + and - are exact, Mul and Div round to the *)
(* nearest unit.  Pixel inputs (pointer positions, scene sizes) are whole  *)
(* pixels.                                                                 *)
(***************************************************************************)
EXTENDS Integers, Sequences, FiniteSets, TLC

\* ------------------------------------------------------------------ bounds
\* units per 1.0 (the precision of the arithmetic)
Q == 100
\* handler invocations explored per behaviour of the canvas state machine
MaxSteps == 4

\* ----------------------------------------------------------------- numbers
Pix(n) == n * Q

Abs(a) == IF a < 0 THEN -a ELSE a

Min2(a, b) == IF a < b THEN a ELSE b

Max2(a, b) == IF a > b THEN a ELSE b

\* n/d rounded to the nearest integer, d > 0
Rnd(n, d) == (2 * n + d) \div (2 * d)

\* a * b
Mul(a, b) == Rnd(a * b, Q)

\* a / b, b # 0
Div(a, b) == IF b > 0 THEN Rnd(a * Q, b) ELSE Rnd((0 - a) * Q, 0 - b)

\* ------------------------------------------------------- program constants
MIN_ZOOM == Div(Pix(1), Pix(10))

MAX_ZOOM == Pix(4)

ZOOM_STEP == Div(Pix(1), Pix(10))

SNAP_THRESHOLD == Pix(12)

\* setScenes: const gap = 20
Gap == Pix(20)

\* fitAll: const padding = 40
Padding == Pix(40)

\* ------------------------------------------------------------------- state
VARIABLES
  scenes,        \* LayoutCanvas.scenes: sequence of SceneEntry
  zoom,          \* LayoutCanvas.zoom
  panX,          \* LayoutCanvas.panX
  panY,          \* LayoutCanvas.panY
  dragging,      \* LayoutCanvas._dragging: <<>> (null) or <<[index, startX, startY, origX, origY]>>
  panning,       \* LayoutCanvas._panning
  panStart,      \* LayoutCanvas._panStart
  panFrom,       \* where the pan moves in progress began: <<>> or <<[x, y, panX, panY]>>, pointer and pan
  hoveredIndex,  \* LayoutCanvas._hoveredIndex (0 = none; the code's -1)
  snapX,         \* LayoutCanvas.snapX
  snapY,         \* LayoutCanvas.snapY
  snapGuides,    \* LayoutCanvas._snapGuides: sequence of [axis, value]
  imageCache,    \* keys of LayoutCanvas._imageCache
  loading,       \* keys of _imageCache whose Image has neither loaded nor failed yet
  tooltipShown,  \* this._tooltip.style.display = "block"
  frame,         \* a requestAnimationFrame callback of _showTooltip is pending
  attached,      \* the canvas listeners are attached (_bindEvents done, _removeEvents not)
  canvasW,       \* canvas.width
  canvasH,       \* canvas.height
  ev,            \* name of the call or DOM event handled by the last step
  ptr,           \* the pointer position and shift key of the last drag-move event, and the
                 \* number of drag-move events since the drag in progress began
  notified,      \* number of onLayoutChange() calls made by the last step
  threw,         \* the last handler ended by throwing (TypeError)
  steps,         \* handler invocations so far
  mpc,           \* mergeScenes: "idle" (not called), "creating", "tiles", "embedded" (awaiting), "resolved", "rejected"
  mLayouts,      \* mergeScenes: the sceneLayouts argument
  mWarnings,     \* mergeScenes: warnings
  mScene,        \* the Scene.create call: <<>> (not made) or <<[width, height, grid, sourceScenes, state]>>
  mTiles,        \* mergeScenes: allBackgroundTiles
  mEmbedded,     \* mergeScenes: allEmbedded, entries [documentName, docs] in key insertion order
  mNext,         \* index in mEmbedded of the batch awaited
  mBatches,      \* the createEmbeddedDocuments calls made, in order: [documentName, docs, state]
  mNotes,        \* ui.notifications.warn calls of mergeScenes: the document names
  world,         \* game.scenes: the scene documents of the world, by id
  rendered,      \* SceneStitcherApp: the window is rendered
  step,          \* SceneStitcherApp._step
  selected,      \* SceneStitcherApp._selectedSceneIds
  live,          \* SceneStitcherApp._layoutCanvas is not null
  merges,        \* the #onMerge invocations awaiting: [pc, layout], pc "confirm" (the dialog) or "merging" (mergeScenes)
  mergeCalls,    \* the mergeScenes calls made by #onMerge, in order: [layout, confirmed]
  appSnapX,      \* SceneStitcherApp._snapX
  appSnapY,      \* SceneStitcherApp._snapY
  zoomPercent,   \* SceneStitcherApp._zoomPercent
  copy,          \* which copy of the app class runs: "SceneStitcherApp.mjs" or "part_000"
  orphans,       \* LayoutCanvas instances the app replaced without destroy(): listeners still attached
  apps,          \* the SceneStitcherApp instances the toolbar button made: "rendering", "rendered" or "closed"
  appInstance    \* module.mjs appInstance: index in apps, 0 for null

viewVars == <<zoom, panX, panY>>

dragVars == <<dragging, panning, panStart>>

hoverVars == <<hoveredIndex, tooltipShown, frame>>

snapVars == <<snapX, snapY>>

sizeVars == <<canvasW, canvasH>>

cacheVars == <<imageCache, loading>>

canvasVars == <<scenes, viewVars, dragVars, panFrom, hoverVars, snapVars, snapGuides, cacheVars, sizeVars, attached, ev, ptr, notified, threw, steps>>

mergeVars == <<mpc, mLayouts, mWarnings, mScene, mTiles, mEmbedded, mNext, mBatches, mNotes, world>>

toolVars == <<apps, appInstance>>

appVars == <<rendered, step, selected, live, merges, mergeCalls, appSnapX, appSnapY, copy, orphans, toolVars>>

vars == <<canvasVars, mergeVars, appVars, zoomPercent>>

\* ------------------------------------------------------------------ inputs
\* the sceneInfos lists handed to setScenes: width, height in pixels, whether a
\* thumbnail or background image can be loaded
Info(id, w, h, src) == [sceneId |-> id, width |-> Pix(w), height |-> Pix(h), src |-> src]

SceneLists ==
  { <<>>,
    <<Info(1, 8, 8, TRUE)>>,
    <<Info(3, 40, 200, FALSE)>>,
    <<Info(1, 100, 60, TRUE), Info(2, 60, 60, FALSE)>>,
    <<Info(1, 8, 8, TRUE), Info(2, 60, 40, TRUE), Info(3, 60, 40, FALSE)>>,
    <<Info(1, 4000, 3000, TRUE), Info(2, 3000, 3000, TRUE)>> }

\* pointer positions, in canvas pixels (clientX - rect.left, clientY - rect.top)
Points == { <<200, 150>>, <<263, 161>>, <<10, 10>> }

\* pointer-down inputs <<e.button, e.ctrlKey>>: primary, ctrl+primary, middle, secondary
Presses == { <<0, FALSE>>, <<0, TRUE>>, <<1, FALSE>>, <<2, FALSE>> }

\* wheel positions, in canvas pixels
WheelPoints == { <<200, 150>>, <<10, 10>> }

\* Math.sign(e.deltaY)
WheelSigns == {-1, 0, 1}

\* ---------------------------------------------------- coordinate transforms
\* mutant of CanvasToScene: divides before taking the pan offset off
CanvasToSceneNoPan(c, z, pan) == Div(c, z) - pan

\* one coordinate of _canvasToScene under viewport (z, pan)
CanvasToScene(c, z, pan) == Div(c - pan, z)

\* one coordinate of _sceneToCanvas under viewport (z, pan)
SceneToCanvas(s, z, pan) == Mul(s, z) + pan

\* -------------------------------------------------------------- hit testing
\* _hitTest: the highest index whose rectangle holds the scene point, 0 for none
\* mutant of HitTest: the scan runs forward, the bottom rectangle is hit first
HitTestBottom(scn, z, px, py, cx, cy) ==
  LET x == CanvasToScene(cx, z, px)
      y == CanvasToScene(cy, z, py)
      hits == { i \in 1..Len(scn) :
                  /\ x >= scn[i].x
                  /\ x <= scn[i].x + scn[i].width
                  /\ y >= scn[i].y
                  /\ y <= scn[i].y + scn[i].height }
  IN  IF hits = {} THEN 0 ELSE CHOOSE i \in hits : \A j \in hits : j >= i

HitTest(scn, z, px, py, cx, cy) ==
  LET x == CanvasToScene(cx, z, px)
      y == CanvasToScene(cy, z, py)
      hits == { i \in 1..Len(scn) :
                  /\ x >= scn[i].x
                  /\ x <= scn[i].x + scn[i].width
                  /\ y >= scn[i].y
                  /\ y <= scn[i].y + scn[i].height }
  IN  IF hits = {} THEN 0 ELSE CHOOSE i \in hits : \A j \in hits : j <= i

\* ----------------------------------------------------------------- fitAll
SetMin(S) == CHOOSE m \in S : \A n \in S : m <= n

SetMax(S) == CHOOSE m \in S : \A n \in S : m >= n

BoxMinX(scn) == SetMin({ scn[i].x : i \in 1..Len(scn) })

BoxMinY(scn) == SetMin({ scn[i].y : i \in 1..Len(scn) })

BoxMaxX(scn) == SetMax({ scn[i].x + scn[i].width : i \in 1..Len(scn) })

BoxMaxY(scn) == SetMax({ scn[i].y + scn[i].height : i \in 1..Len(scn) })

\* mutant of FitZoom: only the width is fitted
FitZoomWidthOnly(scn, w, h) ==
  Max2(Min2(Div(w - Padding * 2, BoxMaxX(scn) - BoxMinX(scn)), MAX_ZOOM), MIN_ZOOM)

\* the zoom fitAll chooses for a non-empty rectangle list
FitZoom(scn, w, h) ==
  LET contentWidth == BoxMaxX(scn) - BoxMinX(scn)
      contentHeight == BoxMaxY(scn) - BoxMinY(scn)
      scaleX == Div(w - Padding * 2, contentWidth)
      scaleY == Div(h - Padding * 2, contentHeight)
  IN  Max2(Min2(Min2(scaleX, scaleY), MAX_ZOOM), MIN_ZOOM)

\* the pan fitAll chooses on one axis: centre the content
FitPan(size, lo, hi, z) == Div(size, Pix(2)) - Mul(lo + Div(hi - lo, Pix(2)), z)

\* the viewport after fitAll, from viewport cur
FitView(scn, w, h, cur) ==
  IF Len(scn) = 0
  THEN cur
  ELSE LET z == FitZoom(scn, w, h)
       IN  [zoom |-> z,
            panX |-> FitPan(w, BoxMinX(scn), BoxMaxX(scn), z),
            panY |-> FitPan(h, BoxMinY(scn), BoxMaxY(scn), z)]

\* ---------------------------------------------------------------- _setZoom
\* mutant of ClampZoom: no lower clamp
ClampZoomNoFloor(newZoom) == Min2(MAX_ZOOM, newZoom)

ClampZoom(newZoom) == Max2(MIN_ZOOM, Min2(MAX_ZOOM, newZoom))

\* mutant of ZoomPan: zoom about the origin, not about the anchor
ZoomPanOrigin(c, pan, z, clampedZoom) == Mul(pan, Div(clampedZoom, z))

\* the pan _setZoom computes on one axis for anchor c
ZoomPan(c, pan, z, clampedZoom) == c - Mul(c - pan, Div(clampedZoom, z))

\* the viewport after _setZoom(newZoom, cx, cy)
ZoomView(newZoom, cx, cy, z, px, py) ==
  LET clampedZoom == ClampZoom(newZoom)
  IN  [zoom |-> clampedZoom,
       panX |-> ZoomPan(cx, px, z, clampedZoom),
       panY |-> ZoomPan(cy, py, z, clampedZoom)]

\* ------------------------------------------------------------ _computeSnap
Case(axis, dist, snap, guide) == [axis |-> axis, dist |-> dist, snap |-> snap, guide |-> guide]

\* mutant of XCases: right-to-left and right-to-right forget the dragged width
XCasesNoWidth(newX, dw, other) ==
  LET dLeft == newX
      dRight == newX + dw
      oLeft == other.x
      oRight == other.x + other.width
  IN  << Case("x", Abs(dLeft - oRight), oRight, oRight),
         Case("x", Abs(dRight - oLeft), oLeft, oLeft),
         Case("x", Abs(dLeft - oLeft), oLeft, oLeft),
         Case("x", Abs(dRight - oRight), oRight, oRight) >>

\* the four X cases against rectangle other, in the order the code tests them
XCases(newX, dw, other) ==
  LET dLeft == newX
      dRight == newX + dw
      oLeft == other.x
      oRight == other.x + other.width
  IN  << Case("x", Abs(dLeft - oRight), oRight, oRight),
         Case("x", Abs(dRight - oLeft), oLeft - dw, oLeft),
         Case("x", Abs(dLeft - oLeft), oLeft, oLeft),
         Case("x", Abs(dRight - oRight), oRight - dw, oRight) >>

\* the four Y cases against rectangle other, in the order the code tests them
YCases(newY, dh, other) ==
  LET dTop == newY
      dBottom == newY + dh
      oTop == other.y
      oBottom == other.y + other.height
  IN  << Case("y", Abs(dTop - oBottom), oBottom, oBottom),
         Case("y", Abs(dBottom - oTop), oTop - dh, oTop),
         Case("y", Abs(dTop - oTop), oTop, oTop),
         Case("y", Abs(dBottom - oBottom), oBottom - dh, oBottom) >>

\* mutant of SnapCases: either flag enables the cases of both axes
RECURSIVE SnapCasesTied(_, _, _, _, _, _, _)
SnapCasesTied(scn, dragIndex, newX, newY, sx, sy, i) ==
  IF i > Len(scn)
  THEN <<>>
  ELSE (IF i = dragIndex
        THEN <<>>
        ELSE (IF sx \/ sy THEN XCases(newX, scn[dragIndex].width, scn[i]) ELSE <<>>)
             \o (IF sx \/ sy THEN YCases(newY, scn[dragIndex].height, scn[i]) ELSE <<>>))
       \o SnapCasesTied(scn, dragIndex, newX, newY, sx, sy, i + 1)

\* every case of the loop over this.scenes, in iteration order, from rectangle i on
RECURSIVE SnapCases(_, _, _, _, _, _, _)
SnapCases(scn, dragIndex, newX, newY, sx, sy, i) ==
  IF i > Len(scn)
  THEN <<>>
  ELSE (IF i = dragIndex
        THEN <<>>
        ELSE (IF sx THEN XCases(newX, scn[dragIndex].width, scn[i]) ELSE <<>>)
             \o (IF sy THEN YCases(newY, scn[dragIndex].height, scn[i]) ELSE <<>>))
       \o SnapCases(scn, dragIndex, newX, newY, sx, sy, i + 1)

\* SNAP_THRESHOLD / this.zoom
\* mutant of Threshold: the threshold in screen pixels, not divided by the zoom
ThresholdUnscaled(z) == SNAP_THRESHOLD

Threshold(z) == Div(SNAP_THRESHOLD, z)

\* mutant of SnapCase: the first matching case of an axis keeps the coordinate
SnapCaseFirstWins(acc, c, threshold) ==
  IF c.dist < threshold
  THEN [x |-> IF c.axis = "x" /\ \A k \in 1..Len(acc.guides) : acc.guides[k].axis # "x" THEN c.snap ELSE acc.x,
        y |-> IF c.axis = "y" /\ \A k \in 1..Len(acc.guides) : acc.guides[k].axis # "y" THEN c.snap ELSE acc.y,
        guides |-> Append(acc.guides, [axis |-> c.axis, value |-> c.guide])]
  ELSE acc

\* mutant of SnapCase: a distance equal to the threshold matches too
SnapCaseInclusive(acc, c, threshold) ==
  IF c.dist <= threshold
  THEN [x |-> IF c.axis = "x" THEN c.snap ELSE acc.x,
        y |-> IF c.axis = "y" THEN c.snap ELSE acc.y,
        guides |-> Append(acc.guides, [axis |-> c.axis, value |-> c.guide])]
  ELSE acc

\* one if-statement of the loop: a matching case overwrites the coordinate of its
\* axis and pushes its guide
SnapCase(acc, c, threshold) ==
  IF c.dist < threshold
  THEN [x |-> IF c.axis = "x" THEN c.snap ELSE acc.x,
        y |-> IF c.axis = "y" THEN c.snap ELSE acc.y,
        guides |-> Append(acc.guides, [axis |-> c.axis, value |-> c.guide])]
  ELSE acc

RECURSIVE SnapFold(_, _, _, _)
SnapFold(cases, k, acc, threshold) ==
  IF k > Len(cases)
  THEN acc
  ELSE SnapFold(cases, k + 1, SnapCase(acc, cases[k], threshold), threshold)

\* mutant of SnapOff: the shift key is ignored
SnapOffFlagsOnly(shiftHeld, sx, sy) == ~sx /\ ~sy

\* whether _computeSnap returns early, without snapping
SnapOff(shiftHeld, sx, sy) == shiftHeld \/ (~sx /\ ~sy)

\* _computeSnap(dragIndex, newX, newY, shiftHeld): the returned position and the
\* value assigned to this._snapGuides; dragIndex is an index of scn
ComputeSnap(scn, dragIndex, newX, newY, shiftHeld, sx, sy, z) ==
  IF SnapOff(shiftHeld, sx, sy)
  THEN [x |-> newX, y |-> newY, guides |-> <<>>]
  ELSE SnapFold(SnapCases(scn, dragIndex, newX, newY, sx, sy, 1), 1,
                [x |-> newX, y |-> newY, guides |-> <<>>], Threshold(z))

\* ----------------------------------------------------------------- actions
\* bookkeeping of one handler invocation
\* Math.round(this._layoutCanvas.zoom * 100)
Percent(z) == (2 * 100 * z + Q) \div (2 * Q)

\* the calls of the canvas after which the app writes _zoomPercent: in the app
\* zoomIn(), zoomOut() and fitAll() are called by #onZoomIn, #onZoomOut and
\* #onFitAll alone, which write it after the call
ReadoutCalls == {"zoomIn", "zoomOut", "fitAll"}

Handled(e, calls, thrown) ==
  /\ steps < MaxSteps
  /\ steps' = steps + 1
  /\ ev' = e
  /\ notified' = calls
  /\ threw' = thrown
  /\ UNCHANGED <<attached, mergeVars, appVars>>

\* _zoomPercent after the handler of e, which made calls onLayoutChange() calls
Readout(e, calls) ==
  zoomPercent' = IF live /\ (calls > 0 \/ e \in ReadoutCalls) THEN Percent(zoom') ELSE zoomPercent

\* a call that sets the pan to (px, py) by itself: the pan moves in progress, if
\* any, go on from the last pointer position and that pan
Rebased(px, py) ==
  IF panFrom = <<>>
  THEN <<>>
  ELSE <<[x |-> panStart.x, y |-> panStart.y, panX |-> px, panY |-> py]>>

\* the row layout setScenes builds: entry i at x = gap + sum of (width + gap) before it
RECURSIVE RowLayout(_, _, _)
RowLayout(infos, i, currentX) ==
  IF i > Len(infos)
  THEN <<>>
  ELSE <<[sceneId |-> infos[i].sceneId, width |-> infos[i].width, height |-> infos[i].height,
          src |-> infos[i].src, x |-> currentX, y |-> Gap]>>
       \o RowLayout(infos, i + 1, currentX + infos[i].width + Gap)

\* _loadImage: the scenes of a list that have a thumbnail or background to load
Loadable(placed) == { placed[i].sceneId : i \in { j \in 1..Len(placed) : placed[j].src } }

\* setScenes(sceneInfos): row layout, _loadImage for each scene, fitAll
SetScenes(infos) ==
  LET placed == RowLayout(infos, 1, Gap)
      view == FitView(placed, canvasW, canvasH, [zoom |-> zoom, panX |-> panX, panY |-> panY])
  IN  /\ Handled("setScenes", 0, FALSE)
      /\ scenes' = placed
      /\ imageCache' = imageCache \cup Loadable(placed)
      /\ loading' = loading \cup (Loadable(placed) \ imageCache)
      /\ zoom' = view.zoom
      /\ panX' = view.panX
      /\ panY' = view.panY
      /\ panFrom' = Rebased(view.panX, view.panY)
      /\ UNCHANGED <<dragVars, hoverVars, snapVars, snapGuides, sizeVars, ptr>>
      /\ Readout("setScenes", 0)

\* fitAll()
FitAll ==
  LET view == FitView(scenes, canvasW, canvasH, [zoom |-> zoom, panX |-> panX, panY |-> panY])
  IN  /\ Handled("fitAll", 0, FALSE)
      /\ zoom' = view.zoom
      /\ panX' = view.panX
      /\ panY' = view.panY
      /\ panFrom' = Rebased(view.panX, view.panY)
      /\ UNCHANGED <<scenes, dragVars, hoverVars, snapVars, snapGuides, cacheVars, sizeVars, ptr>>
      /\ Readout("fitAll", 0)

\* _setZoom(newZoom, cx, cy) called for event e: new viewport, render, onLayoutChange()
SetZoom(e, newZoom, cx, cy) ==
  LET view == ZoomView(newZoom, cx, cy, zoom, panX, panY)
  IN  /\ Handled(e, 1, FALSE)
      /\ zoom' = view.zoom
      /\ panX' = view.panX
      /\ panY' = view.panY
      /\ panFrom' = Rebased(view.panX, view.panY)
      /\ UNCHANGED <<scenes, dragVars, hoverVars, snapVars, snapGuides, cacheVars, sizeVars, ptr>>
      /\ Readout(e, 1)

\* zoomIn()
ZoomIn == SetZoom("zoomIn", zoom + ZOOM_STEP, Div(canvasW, Pix(2)), Div(canvasH, Pix(2)))

\* zoomOut()
ZoomOut == SetZoom("zoomOut", zoom - ZOOM_STEP, Div(canvasW, Pix(2)), Div(canvasH, Pix(2)))

\* mutant of Wheel: the notch direction is not negated
WheelNotNegated(cx, cy, sign) ==
  SetZoom("wheel", zoom + sign * ZOOM_STEP, cx, cy)

\* _handleWheel(e): delta = -Math.sign(e.deltaY) * ZOOM_STEP
Wheel(cx, cy, sign) ==
  SetZoom("wheel", zoom + (0 - sign) * ZOOM_STEP, cx, cy)

\* setSnap(mode)
SetSnap(mode) ==
  /\ Handled("setSnap", 0, FALSE)
  /\ snapX' = CASE mode = "x" -> ~snapX
                [] mode = "y" -> snapX
                [] mode = "both" -> ~(snapX /\ snapY)
                [] OTHER -> FALSE
  /\ snapY' = CASE mode = "x" -> snapY
                [] mode = "y" -> ~snapY
                [] mode = "both" -> ~(snapX /\ snapY)
                [] OTHER -> FALSE
  /\ UNCHANGED <<scenes, viewVars, dragVars, panFrom, hoverVars, snapGuides, cacheVars, sizeVars, ptr>>
  /\ Readout("setSnap", 0)

\* the pointer-down branch taken: "pan", "drag" (a rectangle was hit) or "none"
DownKind(cx, cy, button, ctrl) ==
  IF button = 1 \/ (button = 0 /\ ctrl)
  THEN "pan"
  ELSE IF button = 0 /\ HitTest(scenes, zoom, panX, panY, cx, cy) >= 1
       THEN "drag"
       ELSE "none"

\* the record stored in this._dragging for a hit at canvas point (cx, cy)
DragStart(cx, cy) ==
  LET index == HitTest(scenes, zoom, panX, panY, cx, cy)
  IN  [index |-> index,
       startX |-> CanvasToScene(cx, zoom, panX),
       startY |-> CanvasToScene(cy, zoom, panY),
       origX |-> scenes[index].x,
       origY |-> scenes[index].y]

\* _handlePointerDown(e)
PointerDown(cx, cy, button, ctrl) ==
  LET kind == DownKind(cx, cy, button, ctrl)
  IN  /\ Handled("pointerdown", 0, FALSE)
      /\ panning' = IF kind = "pan" THEN TRUE ELSE panning
      /\ panStart' = IF kind = "pan" THEN [x |-> cx, y |-> cy] ELSE panStart
      /\ panFrom' = IF kind = "pan" THEN <<[x |-> cx, y |-> cy, panX |-> panX, panY |-> panY]>> ELSE panFrom
      /\ dragging' = IF kind = "drag" THEN <<DragStart(cx, cy)>> ELSE dragging
      /\ tooltipShown' = IF kind = "drag" THEN FALSE ELSE tooltipShown
      /\ ptr' = IF kind = "drag" THEN [ptr EXCEPT !.moves = 0] ELSE ptr
      /\ UNCHANGED <<scenes, viewVars, hoveredIndex, frame, snapVars, snapGuides, cacheVars, sizeVars>>
      /\ Readout("pointerdown", 0)

\* mutant of Proposed: the pointer delta is taken in screen space
ProposedScreenDelta(d, cx, cy, z, px, py) ==
  [x |-> d.origX + (cx - SceneToCanvas(d.startX, z, px)),
   y |-> d.origY + (cy - SceneToCanvas(d.startY, z, py))]

\* the position a drag-move proposes before snapping: orig + (scenePos - start)
\* mutant of Proposed: the pointer delta is added to the rectangle's current position
ProposedFromCurrent(d, cx, cy, z, px, py) ==
  [x |-> scenes[d.index].x + (CanvasToScene(cx, z, px) - d.startX),
   y |-> scenes[d.index].y + (CanvasToScene(cy, z, py) - d.startY)]

Proposed(d, cx, cy, z, px, py) ==
  [x |-> d.origX + (CanvasToScene(cx, z, px) - d.startX),
   y |-> d.origY + (CanvasToScene(cy, z, py) - d.startY)]

\* mutant of PanStep: the pointer delta is scaled into world space
PanStepScaled(cx, cy) ==
  [panX |-> panX + Div(cx - panStart.x, zoom),
   panY |-> panY + Div(cy - panStart.y, zoom),
   panStart |-> [x |-> cx, y |-> cy]]

\* the pan branch of _handlePointerMove for a pointer at canvas point (cx, cy)
PanStep(cx, cy) ==
  [panX |-> panX + (cx - panStart.x),
   panY |-> panY + (cy - panStart.y),
   panStart |-> [x |-> cx, y |-> cy]]

\* the pointer-move branch taken
MoveKind ==
  IF panning
  THEN "pan"
  ELSE IF dragging # <<>>
       THEN (IF dragging[1].index <= Len(scenes) THEN "drag" ELSE "stale")
       ELSE "hover"

\* the result of _computeSnap for the drag in progress and pointer (cx, cy)
DragSnap(cx, cy, shift) ==
  LET d == dragging[1]
      p == Proposed(d, cx, cy, zoom, panX, panY)
  IN  ComputeSnap(scenes, d.index, p.x, p.y, shift, snapX, snapY, zoom)

\* _handlePointerMove(e).  "stale": this.scenes[index] is undefined (setScenes
\* replaced the list during the drag), so the handler throws a TypeError,
\* after _computeSnap's early return cleared the guides when snapping is off
PointerMove(cx, cy, shift) ==
  LET kind == MoveKind
      hit == HitTest(scenes, zoom, panX, panY, cx, cy)
  IN  /\ Handled("pointermove", 0, kind = "stale")
      /\ panX' = IF kind = "pan" THEN PanStep(cx, cy).panX ELSE panX
      /\ panY' = IF kind = "pan" THEN PanStep(cx, cy).panY ELSE panY
      /\ panStart' = IF kind = "pan" THEN PanStep(cx, cy).panStart ELSE panStart
      /\ scenes' = IF kind = "drag"
                   THEN [scenes EXCEPT ![dragging[1].index].x = DragSnap(cx, cy, shift).x,
                                       ![dragging[1].index].y = DragSnap(cx, cy, shift).y]
                   ELSE scenes
      /\ snapGuides' = CASE kind = "drag" -> DragSnap(cx, cy, shift).guides
                         [] kind = "stale" /\ SnapOff(shift, snapX, snapY) -> <<>>
                         [] OTHER -> snapGuides
      /\ hoveredIndex' = IF kind = "hover" THEN hit ELSE hoveredIndex
      /\ tooltipShown' = IF kind = "hover" THEN hit >= 1 ELSE tooltipShown
      /\ frame' = IF kind = "hover" /\ hit >= 1 THEN TRUE ELSE frame
      /\ ptr' = IF kind = "drag" THEN [x |-> cx, y |-> cy, shift |-> shift, moves |-> ptr.moves + 1] ELSE ptr
      /\ UNCHANGED <<zoom, dragging, panning, panFrom, snapVars, cacheVars, sizeVars>>
      /\ Readout("pointermove", 0)

\* mutant of PointerUp: the guides are not cleared at drag-end
PointerUpKeepsGuides(kind) ==
  /\ Handled(kind, IF dragging # <<>> THEN 1 ELSE 0, FALSE)
  /\ dragging' = <<>>
  /\ panning' = FALSE
  /\ panFrom' = <<>>
  /\ UNCHANGED <<scenes, viewVars, panStart, hoverVars, snapVars, snapGuides, cacheVars, sizeVars, ptr>>
  /\ Readout(kind, IF dragging # <<>> THEN 1 ELSE 0)

\* _handlePointerUp(e), bound to pointerup and to pointerleave
PointerUp(kind) ==
  /\ Handled(kind, IF dragging # <<>> THEN 1 ELSE 0, FALSE)
  /\ snapGuides' = IF dragging # <<>> THEN <<>> ELSE snapGuides
  /\ dragging' = <<>>
  /\ panning' = FALSE
  /\ panFrom' = <<>>
  /\ UNCHANGED <<scenes, viewVars, panStart, hoverVars, snapVars, cacheVars, sizeVars, ptr>>
  /\ Readout(kind, IF dragging # <<>> THEN 1 ELSE 0)

\* ------------------------------------------------------------ merge engine
\* EMBEDDED_TYPES, in table order
EMBEDDED_TYPES ==
  << [collection |-> "walls", documentName |-> "Wall"],
     [collection |-> "lights", documentName |-> "AmbientLight"],
     [collection |-> "sounds", documentName |-> "AmbientSound"],
     [collection |-> "tokens", documentName |-> "Token"],
     [collection |-> "tiles", documentName |-> "Tile"],
     [collection |-> "drawings", documentName |-> "Drawing"],
     [collection |-> "notes", documentName |-> "Note"],
     [collection |-> "templates", documentName |-> "MeasuredTemplate"],
     [collection |-> "regions", documentName |-> "Region"] >>

Collections == { EMBEDDED_TYPES[k].collection : k \in 1..Len(EMBEDDED_TYPES) }

\* an optional field: <<>> is undefined, <<v>> is the value v
OrZero(v) == IF v = <<>> THEN 0 ELSE v[1]

\* mutant of OffsetAnchor: the two offsets are swapped
OffsetAnchorSwapped(data, dx, dy) ==
  [data EXCEPT !.x = <<OrZero(data.x) + dy>>, !.y = <<OrZero(data.y) + dx>>]

\* data.x = (data.x ?? 0) + dx; data.y = (data.y ?? 0) + dy
OffsetAnchor(data, dx, dy) ==
  [data EXCEPT !.x = <<OrZero(data.x) + dx>>, !.y = <<OrZero(data.y) + dy>>]

\* mutant of OffsetPoints: every value is moved by dx
OffsetPointsAllX(points, dx, dy) == [i \in 1..Len(points) |-> points[i] + dx]

\* points.map((val, i) => (i % 2 === 0 ? val + dx : val + dy)); index 0 is the first
OffsetPoints(points, dx, dy) ==
  [i \in 1..Len(points) |-> IF i % 2 = 1 THEN points[i] + dx ELSE points[i] + dy]

\* one shape of a region
OffsetShape(shape, dx, dy) ==
  [points |-> OffsetPoints(shape.points, dx, dy),
   x |-> IF shape.x # <<>> THEN <<shape.x[1] + dx>> ELSE <<>>,
   y |-> IF shape.y # <<>> THEN <<shape.y[1] + dy>> ELSE <<>>]

\* mutant of OffsetFn: the points of a drawing are translated as well
OffsetFnDrawingPointsMoved(documentName, data, dx, dy) ==
  CASE documentName = "Wall" ->
         IF data.c # <<>>
         THEN [data EXCEPT !.c = <<data.c[1] + dx, data.c[2] + dy, data.c[3] + dx, data.c[4] + dy>>]
         ELSE data
    [] documentName = "Region" ->
         [data EXCEPT !.shapes = [k \in 1..Len(data.shapes) |-> OffsetShape(data.shapes[k], dx, dy)]]
    [] documentName = "Drawing" ->
         [OffsetAnchor(data, dx, dy) EXCEPT !.points = OffsetPoints(data.points, dx, dy)]
    [] OTHER -> OffsetAnchor(data, dx, dy)

\* the offsetFn of the table entry with this documentName
OffsetFn(documentName, data, dx, dy) ==
  CASE documentName = "Wall" ->
         IF data.c # <<>>
         THEN [data EXCEPT !.c = <<data.c[1] + dx, data.c[2] + dy, data.c[3] + dx, data.c[4] + dy>>]
         ELSE data
    [] documentName = "Region" ->
         [data EXCEPT !.shapes = [k \in 1..Len(data.shapes) |-> OffsetShape(data.shapes[k], dx, dy)]]
    [] OTHER -> OffsetAnchor(data, dx, dy)

\* a scene without embedded documents
NoDocs == [c \in Collections |-> <<>>]

Wall(id, x1, y1, x2, y2) == [_id |-> id, c |-> <<Pix(x1), Pix(y1), Pix(x2), Pix(y2)>>]

Anchored(id, x, y) == [_id |-> id, x |-> <<Pix(x)>>, y |-> <<Pix(y)>>]

\* a tile of a source scene: its anchor and its stacking order (sort)
TileDoc(id, x, y, sort) == [_id |-> id, x |-> <<Pix(x)>>, y |-> <<Pix(y)>>, sort |-> sort]

Drawing(id, x, y, points) == [_id |-> id, x |-> <<Pix(x)>>, y |-> <<Pix(y)>>, points |-> points]

Region(id, shapes) == [_id |-> id, shapes |-> shapes]

\* game.scenes before any merge
GameScenes ==
  [id \in {1, 2, 3} |->
    CASE id = 1 ->
           [id |-> 1, name |-> "Cellar", grid |-> [size |-> 100, type |-> 1], background |-> TRUE,
            sceneWidth |-> Pix(100), sceneHeight |-> Pix(60),
            docs |-> [NoDocs EXCEPT !["walls"] = <<Wall(11, 10, 10, 50, 10)>>,
                                    !["tokens"] = <<Anchored(12, 5, 5), [_id |-> 13, x |-> <<>>, y |-> <<Pix(7)>>]>>]]
      [] id = 2 ->
           [id |-> 2, name |-> "Hall", grid |-> [size |-> 50, type |-> 1], background |-> FALSE,
            sceneWidth |-> Pix(60), sceneHeight |-> Pix(60),
            docs |-> [NoDocs EXCEPT !["walls"] = <<Wall(21, 0, 0, 0, 60)>>,
                                    !["lights"] = <<Anchored(22, 30, 30)>>,
                                    !["sounds"] = <<Anchored(23, 10, 20)>>,
                                    !["notes"] = <<Anchored(24, 0, 0)>>,
                                    !["templates"] = <<Anchored(25, 40, 50)>>]]
      [] OTHER ->
           [id |-> 3, name |-> "Tower", grid |-> [size |-> 100, type |-> 2], background |-> TRUE,
            sceneWidth |-> Pix(60), sceneHeight |-> Pix(40),
            docs |-> [NoDocs EXCEPT !["tiles"] = <<TileDoc(31, 0, 0, 0 - 1000)>>,
                                    !["drawings"] = <<Drawing(32, 5, 5, <<0, 0, Pix(10), 0, Pix(10), Pix(10)>>)>>,
                                    !["regions"] = <<Region(33, <<[points |-> <<0, 0, Pix(4), 0, Pix(4), Pix(4)>>,
                                                                    x |-> <<Pix(1)>>, y |-> <<>>]>>)>>]]]

\* the layouts of sceneLayouts whose game.scenes.get(l.sceneId) is undefined
Missing(layouts) == SelectSeq(layouts, LAMBDA l : l.sceneId \notin DOMAIN world)

\* mutant of ComputeBoundingBox: the entries are not shifted
ComputeBoundingBoxNoShift(layouts) ==
  [normalisedLayouts |-> layouts,
   totalWidth |-> BoxMaxX(layouts) - BoxMinX(layouts),
   totalHeight |-> BoxMaxY(layouts) - BoxMinY(layouts)]

\* computeBoundingBox(layouts)
ComputeBoundingBox(layouts) ==
  LET minX == BoxMinX(layouts)
      minY == BoxMinY(layouts)
  IN  [normalisedLayouts |-> [i \in 1..Len(layouts) |->
                                [layouts[i] EXCEPT !.x = layouts[i].x - minX, !.y = layouts[i].y - minY]],
       totalWidth |-> BoxMaxX(layouts) - minX,
       totalHeight |-> BoxMaxY(layouts) - minY]

\* mutant of GridWarnings: the grid type is not compared
RECURSIVE GridWarningsSizeOnly(_, _)
GridWarningsSizeOnly(scns, i) ==
  IF i > Len(scns)
  THEN <<>>
  ELSE (IF scns[i].grid.size # scns[1].grid.size THEN <<[kind |-> "size", subject |-> scns[i].name]>> ELSE <<>>)
       \o GridWarningsSizeOnly(scns, i + 1)

\* validateGridCompatibility(scenes): one warning per mismatching attribute
RECURSIVE GridWarnings(_, _)
GridWarnings(scns, i) ==
  IF i > Len(scns)
  THEN <<>>
  ELSE (IF scns[i].grid.size # scns[1].grid.size THEN <<[kind |-> "size", subject |-> scns[i].name]>> ELSE <<>>)
       \o (IF scns[i].grid.type # scns[1].grid.type THEN <<[kind |-> "type", subject |-> scns[i].name]>> ELSE <<>>)
       \o GridWarnings(scns, i + 1)

ValidateGridCompatibility(scns) == IF Len(scns) < 2 THEN <<>> ELSE GridWarnings(scns, 2)

\* Math.ceil(total / gridSize), total in 1/Q units, gridSize in pixels
CeilUnits(total, gridSize) == 0 - ((0 - total) \div (gridSize * Q))

\* the data handed to Scene.create; every layout resolves
SceneData(layouts) ==
  LET box == ComputeBoundingBox(layouts)
      firstScene == world[layouts[1].sceneId]
  IN  [width |-> CeilUnits(box.totalWidth, firstScene.grid.size),
       height |-> CeilUnits(box.totalHeight, firstScene.grid.size),
       grid |-> firstScene.grid,
       sourceScenes |-> [i \in 1..Len(layouts) |-> layouts[i].sceneId],
       state |-> "pending"]

\* createBackgroundTileData(scene, offsetX, offsetY): <<>> for null
CreateBackgroundTileData(scene, offsetX, offsetY) ==
  IF ~scene.background
  THEN <<>>
  ELSE <<[x |-> offsetX, y |-> offsetY, width |-> scene.sceneWidth, height |-> scene.sceneHeight,
          sort |-> 0 - 1000, locked |-> TRUE, isBackground |-> TRUE,
          sourceSceneId |-> scene.id, sourceSceneName |-> scene.name]>>

\* one document of collectEmbeddedDocuments: toObject, delete _id, offsetFn, provenance flag
CollectDoc(documentName, doc, scene, offsetX, offsetY) ==
  LET data == [f \in (DOMAIN doc) \ {"_id"} |-> doc[f]]
      moved == OffsetFn(documentName, data, offsetX, offsetY)
  IN  [f \in (DOMAIN moved) \cup {"sourceSceneId", "sourceSceneName"} |->
        CASE f = "sourceSceneId" -> scene.id
          [] f = "sourceSceneName" -> scene.name
          [] OTHER -> moved[f]]

\* collectEmbeddedDocuments(scene, offsetX, offsetY): entries [documentName, docs]
\* in table order, from table entry k on
RECURSIVE CollectEmbeddedDocuments(_, _, _, _)
CollectEmbeddedDocuments(scene, offsetX, offsetY, k) ==
  IF k > Len(EMBEDDED_TYPES)
  THEN <<>>
  ELSE LET type == EMBEDDED_TYPES[k]
           collection == scene.docs[type.collection]
       IN  (IF Len(collection) = 0
            THEN <<>>
            ELSE <<[documentName |-> type.documentName,
                    docs |-> [i \in 1..Len(collection) |->
                               CollectDoc(type.documentName, collection[i], scene, offsetX, offsetY)]]>>)
           \o CollectEmbeddedDocuments(scene, offsetX, offsetY, k + 1)

\* mutant of PushAll: a later scene's documents replace the earlier ones of the type
RECURSIVE PushAllReplaces(_, _, _)
PushAllReplaces(all, embedded, k) ==
  IF k > Len(embedded)
  THEN all
  ELSE LET e == embedded[k]
           at == { j \in 1..Len(all) : all[j].documentName = e.documentName }
       IN  PushAllReplaces(IF at = {}
                           THEN Append(all, e)
                           ELSE [j \in 1..Len(all) |-> IF j \in at THEN e ELSE all[j]],
                           embedded, k + 1)

\* allEmbedded[docName] = allEmbedded[docName] ?? []; allEmbedded[docName].push(...docs)
RECURSIVE PushAll(_, _, _)
PushAll(all, embedded, k) ==
  IF k > Len(embedded)
  THEN all
  ELSE LET e == embedded[k]
           at == { j \in 1..Len(all) : all[j].documentName = e.documentName }
       IN  PushAll(IF at = {}
                   THEN Append(all, e)
                   ELSE [j \in 1..Len(all) |-> IF j \in at THEN [all[j] EXCEPT !.docs = @ \o e.docs] ELSE all[j]],
                   embedded, k + 1)

\* the loop over normalisedLayouts, from entry i on: [tiles, embedded]
RECURSIVE CollectAll(_, _, _)
CollectAll(normalised, i, acc) ==
  IF i > Len(normalised)
  THEN acc
  ELSE LET layout == normalised[i]
           scene == world[layout.sceneId]
       IN  CollectAll(normalised, i + 1,
                      [tiles |-> acc.tiles \o CreateBackgroundTileData(scene, layout.x, layout.y),
                       embedded |-> PushAll(acc.embedded, CollectEmbeddedDocuments(scene, layout.x, layout.y, 1), 1)])

\* the documentName of the table entry of a collection
DocumentNameOf(collection) ==
  EMBEDDED_TYPES[CHOOSE k \in 1..Len(EMBEDDED_TYPES) : EMBEDDED_TYPES[k].collection = collection].documentName

\* mutant of SourceDoc: offsetFn is applied to the document itself
SourceDocOffsetInPlace(documentName, doc, offsetX, offsetY) == OffsetFn(documentName, doc, offsetX, offsetY)

\* a document of a source scene after collectEmbeddedDocuments visited it:
\* toObject() hands out a copy, and delete, offsetFn and the flags go to the copy
SourceDoc(documentName, doc, offsetX, offsetY) == doc

\* a source scene after collectEmbeddedDocuments(scene, offsetX, offsetY)
SourceScene(scene, offsetX, offsetY) ==
  [scene EXCEPT !.docs = [c \in Collections |->
                           [j \in 1..Len(scene.docs[c]) |->
                             SourceDoc(DocumentNameOf(c), scene.docs[c][j], offsetX, offsetY)]]]

\* game.scenes after the loop over normalisedLayouts, from entry i on
RECURSIVE WorldAfterCollect(_, _, _)
WorldAfterCollect(w, normalised, i) ==
  IF i > Len(normalised)
  THEN w
  ELSE LET layout == normalised[i]
       IN  WorldAfterCollect([w EXCEPT ![layout.sceneId] = SourceScene(w[layout.sceneId], layout.x, layout.y)],
                             normalised, i + 1)

Batch(documentName, docs) == [documentName |-> documentName, docs |-> docs, state |-> "pending"]

\* the last createEmbeddedDocuments call settles
Settled(batches, ok) ==
  [batches EXCEPT ![Len(batches)].state = IF ok THEN "created" ELSE "failed"]

\* mutant of MergeStart: the merged scene is created before the references are checked
MergeStartCreatesFirst(layouts) ==
  /\ mpc = "idle"
  /\ mLayouts' = layouts
  /\ mpc' = IF Missing(layouts) # <<>> THEN "rejected" ELSE "creating"
  /\ mWarnings' = mWarnings
  /\ mScene' = <<[width |-> 0, height |-> 0, grid |-> [size |-> 100, type |-> 1],
                  sourceScenes |-> [i \in 1..Len(layouts) |-> layouts[i].sceneId], state |-> "pending"]>>
  /\ UNCHANGED <<mTiles, mEmbedded, mNext, mBatches, mNotes, world, canvasVars, appVars, zoomPercent>>

\* mergeScenes(sceneLayouts) up to its first await: resolve the scenes, throw if
\* one is missing, else bounding box, grid warnings and the Scene.create call
MergeStart(layouts) ==
  /\ mpc = "idle"
  /\ mLayouts' = layouts
  /\ mpc' = IF Missing(layouts) # <<>> THEN "rejected" ELSE "creating"
  /\ mWarnings' = IF Missing(layouts) # <<>>
                  THEN mWarnings
                  ELSE ValidateGridCompatibility([i \in 1..Len(layouts) |-> world[layouts[i].sceneId]])
  /\ mScene' = IF Missing(layouts) # <<>> THEN mScene ELSE <<SceneData(layouts)>>
  /\ UNCHANGED <<mTiles, mEmbedded, mNext, mBatches, mNotes, world, canvasVars, appVars, zoomPercent>>

\* the loop over Object.entries(allEmbedded) reaches entry k with batches made so
\* far: submit it and await, or return { mergedScene, warnings }
SubmitFrom(embedded, k, batches) ==
  IF k > Len(embedded)
  THEN /\ mpc' = "resolved"
       /\ mNext' = k
       /\ mBatches' = batches
  ELSE /\ mpc' = "embedded"
       /\ mNext' = k
       /\ mBatches' = Append(batches, Batch(embedded[k].documentName, embedded[k].docs))

\* mutant of MergeSceneSettled: the background batch is left out and the embedded
\* batches start at once
MergeSceneSettledEmbeddedFirst(ok) ==
  LET normalised == ComputeBoundingBox(mLayouts).normalisedLayouts
      all == CollectAll(normalised, 1, [tiles |-> <<>>, embedded |-> <<>>])
  IN  /\ mpc = "creating"
      /\ mScene' = <<[mScene[1] EXCEPT !.state = IF ok THEN "created" ELSE "failed"]>>
      /\ IF ~ok
         THEN /\ mpc' = "rejected"
              /\ UNCHANGED <<mTiles, mEmbedded, mNext, mBatches, world>>
         ELSE /\ mTiles' = all.tiles
              /\ mEmbedded' = all.embedded
              /\ world' = WorldAfterCollect(world, normalised, 1)
              /\ SubmitFrom(all.embedded, 1, <<>>)
      /\ UNCHANGED <<mLayouts, mWarnings, mNotes, canvasVars, appVars, zoomPercent>>

\* await Scene.create(...) settles; on success the tiles and embedded documents
\* are collected and the first batch is submitted
MergeSceneSettled(ok) ==
  LET normalised == ComputeBoundingBox(mLayouts).normalisedLayouts
      all == CollectAll(normalised, 1, [tiles |-> <<>>, embedded |-> <<>>])
  IN  /\ mpc = "creating"
      /\ mScene' = <<[mScene[1] EXCEPT !.state = IF ok THEN "created" ELSE "failed"]>>
      /\ IF ~ok
         THEN /\ mpc' = "rejected"
              /\ UNCHANGED <<mTiles, mEmbedded, mNext, mBatches, world>>
         ELSE /\ mTiles' = all.tiles
              /\ world' = WorldAfterCollect(world, normalised, 1)
              /\ mEmbedded' = all.embedded
              /\ IF Len(all.tiles) > 0
                 THEN /\ mpc' = "tiles"
                      /\ mNext' = 0
                      /\ mBatches' = <<Batch("Tile", all.tiles)>>
                 ELSE SubmitFrom(all.embedded, 1, <<>>)
      /\ UNCHANGED <<mLayouts, mWarnings, mNotes, canvasVars, appVars, zoomPercent>>

\* await mergedScene.createEmbeddedDocuments(...) settles: a failed background
\* batch rejects mergeScenes; a failed embedded batch is caught and warned about
MergeBatchSettled(ok) ==
  /\ mpc \in {"tiles", "embedded"}
  /\ IF mpc = "tiles" /\ ~ok
     THEN /\ mpc' = "rejected"
          /\ mBatches' = Settled(mBatches, ok)
          /\ UNCHANGED mNext
     ELSE SubmitFrom(mEmbedded, mNext + 1, Settled(mBatches, ok))
  /\ mNotes' = IF mpc = "embedded" /\ ~ok THEN Append(mNotes, mEmbedded[mNext].documentName) ELSE mNotes
  /\ UNCHANGED <<mLayouts, mWarnings, mScene, mTiles, mEmbedded, world, canvasVars, appVars, zoomPercent>>

\* the layout lists handed to mergeScenes; 8 and 9 are ids of no scene
Lay(id, x, y, w, h) == [sceneId |-> id, x |-> Pix(x), y |-> Pix(y), width |-> Pix(w), height |-> Pix(h)]

ListedLayouts ==
  { <<Lay(1, 20, 20, 100, 60), Lay(2, 140, 20, 60, 60)>>,
    <<Lay(2, 0 - 30, 10, 60, 60), Lay(1, 30, 0 - 20, 100, 60)>>,
    <<Lay(3, 20, 20, 60, 40), Lay(2, 20, 60, 60, 60)>>,
    <<Lay(1, 20, 20, 100, 60), Lay(2, 140, 20, 60, 60), Lay(3, 220, 20, 60, 40)>>,
    <<Lay(2, 20, 20, 60, 60), Lay(2, 80, 20, 60, 60)>>,
    <<Lay(1, 20, 20, 100, 60), Lay(9, 140, 20, 60, 60)>>,
    <<Lay(9, 20, 20, 100, 60), Lay(1, 140, 20, 100, 60), Lay(3, 260, 20, 60, 40)>>,
    <<Lay(8, 20, 20, 100, 60), Lay(9, 140, 20, 60, 60)>> }

\* a layout entry as getLayout() of the canvas gives it: the scene's own size
LayOf(id, p) ==
  [sceneId |-> id, x |-> Pix(p[1]), y |-> Pix(p[2]),
   width |-> GameScenes[id].sceneWidth, height |-> GameScenes[id].sceneHeight]

\* one scene, and two scenes (or one scene twice) placed at a few positions
PlacedLayouts ==
  { <<LayOf(a, <<40, 50>>)>> : a \in DOMAIN GameScenes }
  \cup { <<LayOf(a, p), LayOf(b, q)>> :
           a \in DOMAIN GameScenes, b \in DOMAIN GameScenes,
           p \in { <<0, 0>>, <<100, 0 - 20>>, <<0 - 30, 200>> },
           q \in { <<0, 0>>, <<100, 200>>, <<0 - 30, 0 - 20>>, <<100, 0 - 20>> } }

MergeLayouts == ListedLayouts \cup PlacedLayouts

\* ---------------------------------------------------------- specification
\* new LayoutCanvas(canvas, options) on a 400 x 300 canvas element
CanvasInit ==
  /\ scenes = <<>>
  /\ zoom = Pix(1)
  /\ panX = 0
  /\ panY = 0
  /\ dragging = <<>>
  /\ panning = FALSE
  /\ panStart = [x |-> 0, y |-> 0]
  /\ panFrom = <<>>
  /\ hoveredIndex = 0
  /\ snapX = TRUE
  /\ snapY = TRUE
  /\ snapGuides = <<>>
  /\ imageCache = {}
  /\ loading = {}
  /\ tooltipShown = FALSE
  /\ frame = FALSE
  /\ canvasW = Pix(400)
  /\ canvasH = Pix(300)
  /\ ev = "new"
  /\ ptr = [x |-> 0, y |-> 0, shift |-> FALSE, moves |-> 0]
  /\ notified = 0
  /\ threw = FALSE
  /\ steps = 0

\* mergeScenes has not been called
MergeIdle ==
  /\ mpc = "idle"
  /\ mLayouts = <<>>
  /\ mWarnings = <<>>
  /\ mScene = <<>>
  /\ mTiles = <<>>
  /\ mEmbedded = <<>>
  /\ mNext = 0
  /\ mBatches = <<>>
  /\ mNotes = <<>>
  /\ world = GameScenes

\* no SceneStitcherApp owns the canvas
NoApp ==
  /\ rendered = FALSE
  /\ step = "select"
  /\ selected = {}
  /\ live = FALSE
  /\ merges = <<>>
  /\ mergeCalls = <<>>
  /\ appSnapX = TRUE
  /\ appSnapY = TRUE
  /\ zoomPercent = 100
  /\ copy = "SceneStitcherApp.mjs"
  /\ orphans = 0
  /\ apps = <<>>
  /\ appInstance = 0

Init == CanvasInit /\ attached = TRUE /\ MergeIdle /\ NoApp

Next ==
  \/ \E infos \in SceneLists : SetScenes(infos)
  \/ FitAll
  \/ ZoomIn
  \/ ZoomOut
  \/ \E p \in WheelPoints, sign \in WheelSigns : Wheel(Pix(p[1]), Pix(p[2]), sign)
  \/ \E mode \in {"x", "y", "both", "none"} : SetSnap(mode)
  \/ \E p \in Points, b \in Presses : PointerDown(Pix(p[1]), Pix(p[2]), b[1], b[2])
  \/ \E p \in Points, shift \in BOOLEAN : PointerMove(Pix(p[1]), Pix(p[2]), shift)
  \/ \E kind \in {"pointerup", "pointerleave"} : PointerUp(kind)

Spec == Init /\ [][Next]_vars

NextMerge ==
  \/ \E layouts \in MergeLayouts : MergeStart(layouts)
  \/ \E ok \in BOOLEAN : MergeSceneSettled(ok)
  \/ \E ok \in BOOLEAN : MergeBatchSettled(ok)

SpecMerge == Init /\ [][NextMerge]_vars

\* ------------------------------------------------------ viewport claims
C1_ZoomInRange == MIN_ZOOM <= zoom /\ zoom <= MAX_ZOOM

C1_ZoomClamps ==
  [][/\ (ZoomOut /\ zoom - ZOOM_STEP < MIN_ZOOM) => zoom' = MIN_ZOOM
     /\ (ZoomIn /\ zoom + ZOOM_STEP > MAX_ZOOM) => zoom' = MAX_ZOOM
     /\ \A p \in Points \cup WheelPoints, sign \in WheelSigns :
          Wheel(Pix(p[1]), Pix(p[2]), sign) =>
            /\ zoom - sign * ZOOM_STEP < MIN_ZOOM => zoom' = MIN_ZOOM
            /\ zoom - sign * ZOOM_STEP > MAX_ZOOM => zoom' = MAX_ZOOM]_vars

\* C1: in every reachable state MIN_ZOOM <= zoom <= MAX_ZOOM, and a zoom request
\* below MIN_ZOOM or above MAX_ZOOM yields exactly MIN_ZOOM or MAX_ZOOM.
C1_ZoomClamped == []C1_ZoomInRange /\ C1_ZoomClamps

\* a zoomOut at the lower limit, or a zoomIn at the upper limit, that was clamped
C1_Witness ==
  \/ ev = "zoomOut" /\ zoom = MIN_ZOOM
  \/ ev = "zoomIn" /\ zoom = MAX_ZOOM

\* the world coordinates under the anchor (cx, cy) are the same before and after
AnchorExact(cx, cy) ==
  /\ CanvasToScene(cx, zoom', panX') = CanvasToScene(cx, zoom, panX)
  /\ CanvasToScene(cy, zoom', panY') = CanvasToScene(cy, zoom, panY)

\* C2 as claimed: the world coordinate under the anchor is the same before and
\* after _setZoom, for the wheel anchor and for the canvas centre of zoomIn, zoomOut.
C2_AnchorExact ==
  [][/\ (ZoomIn \/ ZoomOut) => AnchorExact(Div(canvasW, Pix(2)), Div(canvasH, Pix(2)))
     /\ \A p \in Points, sign \in WheelSigns :
          Wheel(Pix(p[1]), Pix(p[2]), sign) => AnchorExact(Pix(p[1]), Pix(p[2]))]_vars

\* the rounding error of the world coordinate under anchor c: the three rounded
\* operations (ratio, product, quotient) contribute at most
\* (|c - pan| + 1) / (2 zoom') + 1 units of precision
AnchorClose(c, pan, z, pan2, z2) ==
  /\ pan2 = c - Mul(c - pan, Div(z2, z))
  /\ 2 * z2 * Abs(CanvasToScene(c, z2, pan2) - CanvasToScene(c, z, pan)) <= Abs(c - pan) + Q + 2 * z2

\* C2 (amended): after _setZoom pan' = anchor - (anchor - pan) * (zoom'/zoom), and
\* the world coordinate under the anchor equals the one before up to the rounding
\* of the arithmetic.
C2_AnchorWithinRounding ==
  [][/\ (ZoomIn \/ ZoomOut) =>
          /\ AnchorClose(Div(canvasW, Pix(2)), panX, zoom, panX', zoom')
          /\ AnchorClose(Div(canvasH, Pix(2)), panY, zoom, panY', zoom')
     /\ \A p \in Points, sign \in WheelSigns :
          Wheel(Pix(p[1]), Pix(p[2]), sign) =>
            /\ AnchorClose(Pix(p[1]), panX, zoom, panX', zoom')
            /\ AnchorClose(Pix(p[2]), panY, zoom, panY', zoom')]_vars

\* a wheel step that left a zoom and a pan other than the fitted ones
C2_Witness ==
  /\ ev = "wheel"
  /\ scenes # <<>>
  /\ zoom # FitZoom(scenes, canvasW, canvasH)
  /\ panX # FitPan(canvasW, BoxMinX(scenes), BoxMaxX(scenes), FitZoom(scenes, canvasW, canvasH))

\* coordinates the transforms are tried on: quarter pixels around the origin and
\* two far points
CoordSamples == { k * (Q \div 4) : k \in (0 - 12)..12 } \cup { Pix(300), Pix(0 - 43) }

RoundTripScene(x, z, pan) == CanvasToScene(SceneToCanvas(x, z, pan), z, pan)

RoundTripCanvas(x, z, pan) == SceneToCanvas(CanvasToScene(x, z, pan), z, pan)

\* C3 as claimed: _canvasToScene and _sceneToCanvas are exact inverses.
C3_ExactInverse ==
  \A x \in CoordSamples :
    /\ RoundTripScene(x, zoom, panX) = x
    /\ RoundTripCanvas(x, zoom, panX) = x

\* C3 (amended): the two transforms are inverses within the rounding of the
\* arithmetic: at most (1/zoom + 1)/2 units of precision in scene space and
\* (zoom + 1)/2 units in canvas space.
C3_InverseWithinRounding ==
  \A x \in CoordSamples :
    /\ 2 * zoom * Abs(RoundTripScene(x, zoom, panX) - x) <= Q + zoom
    /\ 2 * Q * Abs(RoundTripCanvas(x, zoom, panX) - x) <= zoom + Q

\* a viewport, zoomed out and panned, at which a scene point does not come back
\* exactly from the canvas
C3_Witness ==
  /\ ev # "new"
  /\ zoom < Pix(1)
  /\ panX # 0
  /\ \E x \in CoordSamples : RoundTripScene(x, zoom, panX) # x

\* ----------------------------------------------------- drag specification
\* The snap engine on its own: a drag in progress (pointer-down on the top-left
\* corner of the dragged rectangle, pan 0) over an arrangement left by earlier
\* drags, then one pointermove.  The pointer-down put the scene point under the
\* pointer into startX/startY, so the proposed position is the scene point under
\* the pointer of the move.
Rect(id, x, y, w, h) ==
  [sceneId |-> id, width |-> Pix(w), height |-> Pix(h), src |-> FALSE, x |-> Pix(x), y |-> Pix(y)]

\* arrangements <<rectangle list, dragged index>>
DragLayouts ==
  { << <<Rect(1, 0, 0, 40, 30), Rect(2, 100, 100, 20, 20), Rect(3, 45, 50, 8, 8)>>, 2 >>,
    << <<Rect(1, 100, 100, 20, 20), Rect(2, 60, 0, 40, 30), Rect(3, 63, 40, 40, 30)>>, 1 >>,
    << <<Rect(1, 0, 0, 40, 30), Rect(2, 70, 20, 30, 30), Rect(3, 100, 100, 20, 20)>>, 3 >> }

DragZooms == { Pix(1) \div 2, Pix(1), Pix(2) }

\* pointer positions of the move, in canvas pixels
DragXs == { 5 * k : k \in 0..24 } \cup { 43, 63 }

DragYs == { 0, 10, 15, 20, 30, 38, 40, 50, 58, 60, 100 }

InitDrag ==
  /\ \E l \in DragLayouts, z \in DragZooms :
       /\ scenes = l[1]
       /\ zoom = z
       /\ dragging = << [index |-> l[2],
                         startX |-> l[1][l[2]].x, startY |-> l[1][l[2]].y,
                         origX |-> l[1][l[2]].x, origY |-> l[1][l[2]].y] >>
       /\ panStart = [x |-> 0, y |-> 0]
  /\ panFrom = <<>>
  /\ panX = 0
  /\ panY = 0
  /\ panning = FALSE
  /\ hoveredIndex = 0
  /\ snapX \in BOOLEAN
  /\ snapY \in BOOLEAN
  /\ snapGuides = <<>>
  /\ imageCache = {}
  /\ loading = {}
  /\ tooltipShown = FALSE
  /\ frame = FALSE
  /\ attached = TRUE
  /\ canvasW = Pix(400)
  /\ canvasH = Pix(300)
  /\ ev = "pointerdown"
  /\ ptr = [x |-> 0, y |-> 0, shift |-> FALSE, moves |-> 0]
  /\ notified = 0
  /\ threw = FALSE
  /\ steps = MaxSteps - 1
  /\ MergeIdle
  /\ NoApp

NextDrag == \E x \in DragXs, y \in DragYs, shift \in BOOLEAN : PointerMove(Pix(x), Pix(y), shift)

SpecDrag == InitDrag /\ [][NextDrag]_vars

\* the last step was a pointermove that took the drag branch
DragMoved == ev = "pointermove" /\ dragging # <<>> /\ ~panning /\ dragging[1].index <= Len(scenes)

\* the position that move proposed to _computeSnap
MoveProposed == Proposed(dragging[1], ptr.x, ptr.y, zoom, panX, panY)

\* the cases that move's _computeSnap loop went through with both axes enabled,
\* and with the axes enabled as they are
MoveCasesBoth == SnapCases(scenes, dragging[1].index, MoveProposed.x, MoveProposed.y, TRUE, TRUE, 1)

MoveCases == SnapCases(scenes, dragging[1].index, MoveProposed.x, MoveProposed.y, snapX, snapY, 1)

Dragged == scenes[dragging[1].index]

Coord(r, axis) == IF axis = "x" THEN r.x ELSE r.y

Guides == { snapGuides[k] : k \in 1..Len(snapGuides) }

\* C4: with shift held, or with snapX and snapY both disabled, _computeSnap
\* returns the proposed (x, y) and leaves no guide, whatever the other
\* rectangles are.
C4_SnapSuppressed ==
  (DragMoved /\ (ptr.shift \/ (~snapX /\ ~snapY))) =>
    /\ Dragged.x = MoveProposed.x
    /\ Dragged.y = MoveProposed.y
    /\ snapGuides = <<>>

\* a suppressed move whose proposed position is within the threshold of an edge
C4_Witness ==
  /\ DragMoved
  /\ ptr.shift
  /\ snapX
  /\ snapY
  /\ \E k \in 1..Len(MoveCasesBoth) :
       MoveCasesBoth[k].dist > 0 /\ MoveCasesBoth[k].dist < Threshold(zoom)

\* indices of the cases of an axis that the move's loop found matching
Matching(axis) ==
  { k \in 1..Len(MoveCases) : MoveCases[k].axis = axis /\ MoveCases[k].dist < Threshold(zoom) }

\* indices of the cases of an axis where the two edges are exactly equal
Aligned(axis) == { k \in 1..Len(MoveCases) : MoveCases[k].axis = axis /\ MoveCases[k].dist = 0 }

Snapping == DragMoved /\ ~ptr.shift /\ (snapX \/ snapY)

\* C5 as claimed: a proposed position with an edge exactly on an edge of another
\* rectangle comes back unchanged on that axis, with the matching guide.
C5_SnapIdempotent ==
  Snapping =>
    \A axis \in {"x", "y"} : \A k \in Aligned(axis) :
      /\ Coord(Dragged, axis) = Coord(MoveProposed, axis)
      /\ [axis |-> axis, value |-> MoveCases[k].guide] \in Guides

\* C5 (amended): a proposed position with an edge exactly on an edge of another
\* rectangle always reports the matching guide, and comes back unchanged on that
\* axis when no case that is not an exact alignment matches later in iteration
\* order on that axis.
C5_SnapIdempotentUnlessOverwritten ==
  Snapping =>
    \A axis \in {"x", "y"} : \A k \in Aligned(axis) :
      /\ [axis |-> axis, value |-> MoveCases[k].guide] \in Guides
      /\ (\A j \in Matching(axis) : j > k => j \in Aligned(axis)) =>
           Coord(Dragged, axis) = Coord(MoveProposed, axis)

\* an exactly aligned proposal that matched a second, inexact case before it and
\* came back unchanged
C5_Witness ==
  /\ Snapping
  /\ \E k \in Aligned("x") :
       /\ \A j \in Matching("x") : j > k => j \in Aligned("x")
       /\ \E j \in Matching("x") : j < k /\ j \notin Aligned("x")
       /\ Dragged.x = MoveProposed.x

\* C6: when several cases match on one axis, the coordinate of that axis is the
\* one of the last matching case in iteration order (rectangles in list order, the
\* four cases in their order), not of the closest; with no match it is the proposed one.
C6_LastMatchWins ==
  Snapping =>
    \A axis \in {"x", "y"} :
      Coord(Dragged, axis) =
        IF Matching(axis) = {}
        THEN Coord(MoveProposed, axis)
        ELSE MoveCases[SetMax(Matching(axis))].snap

\* two matching x cases, the last one farther away than an earlier one, and the
\* rectangle at the last one's coordinate
C6_Witness ==
  /\ Snapping
  /\ \E j \in Matching("x") :
       /\ j < SetMax(Matching("x"))
       /\ MoveCases[j].dist < MoveCases[SetMax(Matching("x"))].dist
       /\ MoveCases[j].snap # MoveCases[SetMax(Matching("x"))].snap
       /\ Dragged.x = MoveCases[SetMax(Matching("x"))].snap

\* --------------------------------------------------- interaction claims
\* C7 as claimed: the canvas is in exactly one of idle, dragging(index), panning:
\* dragging and panning are never active at the same time.
C7_OneInteraction == ~(dragging # <<>> /\ panning)

\* C8: a pointerup or pointerleave leaves the canvas idle with no snap guide, and
\* the guide list is empty in every state in which no drag is active.
C8_UpClearsGuides ==
  /\ ev \in {"pointerup", "pointerleave"} => (dragging = <<>> /\ ~panning /\ snapGuides = <<>>)
  /\ dragging = <<>> => snapGuides = <<>>

\* a pointerup that ended a drag which had moved the rectangle
C8_Witness == ev = "pointerup" /\ notified = 1 /\ ptr.x > 0

\* C9 as claimed: onLayoutChange is invoked once at each drag-end, once at each
\* zoom change (wheel, zoomIn, zoomOut) and once at each fitAll, and not by the
\* drag-move and pan-move steps.
C9_NotifiedOnCommit ==
  [][/\ (FitAll /\ scenes # <<>>) => notified' = 1
     /\ (ZoomIn \/ ZoomOut) => notified' = 1
     /\ (\E p \in WheelPoints, sign \in WheelSigns : Wheel(Pix(p[1]), Pix(p[2]), sign)) => notified' = 1
     /\ ((\E kind \in {"pointerup", "pointerleave"} : PointerUp(kind)) /\ dragging # <<>>) => notified' = 1
     /\ (\E p \in Points, shift \in BOOLEAN : PointerMove(Pix(p[1]), Pix(p[2]), shift)) => notified' = 0]_vars

\* --------------------------------------------------------- merge claims
\* C10: when a sceneId of the layouts resolves to no scene, mergeScenes rejects
\* with nothing created: Scene.create is not called and no background or embedded
\* batch is submitted.
C10_MissingRejectsFirst ==
  (mpc # "idle" /\ Missing(mLayouts) # <<>>) =>
    /\ mpc = "rejected"
    /\ mScene = <<>>
    /\ mBatches = <<>>
    /\ mTiles = <<>>
    /\ mEmbedded = <<>>

\* a rejected merge whose layouts named one scene that exists and one that does not
C10_Witness ==
  /\ mpc = "rejected"
  /\ Missing(mLayouts) # <<>>
  /\ Len(Missing(mLayouts)) < Len(mLayouts)

\* the batches of the merge that the persistence collaborator refused
FailedBatches == { k \in 1..Len(mBatches) : mBatches[k].state = "failed" }

\* the number of createEmbeddedDocuments calls a merge that runs to its end makes
AllBatches == (IF Len(mTiles) > 0 THEN 1 ELSE 0) + Len(mEmbedded)

\* C11 as claimed: when a record-type batch fails the failure is caught:
\* mergeScenes does not reject, and every later batch is still submitted.
C11_BatchFailureCaught ==
  FailedBatches # {} =>
    /\ mpc # "rejected"
    /\ mpc = "resolved" => Len(mBatches) = AllBatches

\* C12 as claimed: the result of mergeScenes carries a warnings list, and for
\* every record type whose batch failed that list holds a warning naming the type.
C12_FailureInWarnings ==
  mpc = "resolved" =>
    \A k \in FailedBatches :
      \E w \in 1..Len(mWarnings) :
        mWarnings[w].kind = "create" /\ mWarnings[w].subject = mBatches[k].documentName

\* every layout resolves and some source scene has a background image
HasBackground ==
  /\ Missing(mLayouts) = <<>>
  /\ \E i \in 1..Len(mLayouts) : GameScenes[mLayouts[i].sceneId].background

\* C13: when a source scene has a background, the first batch submitted is the
\* background Tile batch, and any other batch is submitted only after that one
\* was awaited and created.
C13_BackgroundFirst ==
  (HasBackground /\ mScene # <<>> /\ mScene[1].state = "created") =>
    /\ mTiles # <<>>
    /\ mBatches # <<>>
    /\ mBatches[1].documentName = "Tile"
    /\ mBatches[1].docs = mTiles
    /\ \A j \in 1..Len(mTiles) : mTiles[j].isBackground
    /\ Len(mBatches) > 1 => mBatches[1].state = "created"

\* the background batch created and the first embedded batch in flight
C13_Witness ==
  /\ HasBackground
  /\ Len(mBatches) = 2
  /\ mBatches[1].docs = mTiles
  /\ mBatches[2].state = "pending"

\* the place of a documentName in the EMBEDDED_TYPES table
TableIndex(documentName) ==
  CHOOSE k \in 1..Len(EMBEDDED_TYPES) : EMBEDDED_TYPES[k].documentName = documentName

\* the index in mBatches of the first embedded-type batch: the background batch,
\* when there is one, comes before it
FirstEmbedded == IF Len(mTiles) > 0 THEN 2 ELSE 1

\* C14 as claimed: the embedded-type batches are submitted one at a time, never
\* two in flight, in the order of the EMBEDDED_TYPES table.
C14_TableOrder ==
  /\ \A j, k \in 1..Len(mBatches) :
       (mBatches[j].state = "pending" /\ mBatches[k].state = "pending") => j = k
  /\ \A j, k \in FirstEmbedded..Len(mBatches) :
       j < k => TableIndex(mBatches[j].documentName) < TableIndex(mBatches[k].documentName)

\* mergeScenes got past the scene lookup, so computeBoundingBox(sceneLayouts) ran
Boxed == mpc # "idle" /\ Missing(mLayouts) = <<>>

\* C15: computeBoundingBox returns entries whose least x and least y are 0, the
\* spans max(x + width) - min(x) and max(y + height) - min(y) of its input, and
\* leaves every entry's width, height, sceneId, place in the list and offset to
\* every other entry as they were.
C15_BoundingBoxNormalised ==
  Boxed =>
    LET box == ComputeBoundingBox(mLayouts)
        out == box.normalisedLayouts
        I == 1..Len(mLayouts)
    IN  /\ Len(out) = Len(mLayouts)
        /\ \E i \in I : out[i].x = 0
        /\ \E i \in I : out[i].y = 0
        /\ \A i \in I : out[i].x >= 0 /\ out[i].y >= 0
        /\ \E lo, hi \in I :
             /\ \A i \in I : mLayouts[lo].x <= mLayouts[i].x
             /\ \A i \in I : mLayouts[i].x + mLayouts[i].width <= mLayouts[hi].x + mLayouts[hi].width
             /\ box.totalWidth = mLayouts[hi].x + mLayouts[hi].width - mLayouts[lo].x
        /\ \E lo, hi \in I :
             /\ \A i \in I : mLayouts[lo].y <= mLayouts[i].y
             /\ \A i \in I : mLayouts[i].y + mLayouts[i].height <= mLayouts[hi].y + mLayouts[hi].height
             /\ box.totalHeight = mLayouts[hi].y + mLayouts[hi].height - mLayouts[lo].y
        /\ \A i \in I :
             /\ out[i].width = mLayouts[i].width
             /\ out[i].height = mLayouts[i].height
             /\ out[i].sceneId = mLayouts[i].sceneId
        /\ \A i, j \in I :
             /\ out[i].x - out[j].x = mLayouts[i].x - mLayouts[j].x
             /\ out[i].y - out[j].y = mLayouts[i].y - mLayouts[j].y

\* a merge under way whose layout reached left of 0 with one entry and above 0
\* with the other, so that both axes are shifted
C15_Witness ==
  /\ Boxed
  /\ mpc = "creating"
  /\ Len(mLayouts) = 2
  /\ mLayouts[1].x < 0
  /\ mLayouts[1].y > 0
  /\ mLayouts[2].x > 0
  /\ mLayouts[2].y < 0

\* Scene.create resolved, so the collection loop over the layouts has run
Collected == mScene # <<>> /\ mScene[1].state = "created"

\* allEmbedded[documentName], empty when the key was never set
Merged(documentName) ==
  LET at == { k \in 1..Len(mEmbedded) : mEmbedded[k].documentName = documentName }
  IN  IF at = {} THEN <<>> ELSE mEmbedded[CHOOSE k \in at : TRUE].docs

\* the source scene of layout entry i, as it was before the merge
SourceOf(i) == GameScenes[mLayouts[i].sceneId]

\* the number of documents of a collection in the scenes of the layout entries before i
RECURSIVE Before(_, _)
Before(collection, i) ==
  IF i <= 1 THEN 0 ELSE Before(collection, i - 1) + Len(SourceOf(i - 1).docs[collection])

\* the offset of layout entry i in the merged scene
OffsetX(i) == mLayouts[i].x - SetMin({ mLayouts[k].x : k \in 1..Len(mLayouts) })

OffsetY(i) == mLayouts[i].y - SetMin({ mLayouts[k].y : k \in 1..Len(mLayouts) })

\* C16: for every record type the merged list holds the records of the scenes in
\* layout order, as many as the scenes have together, each without its _id, with
\* its other fields, and tagged with the id and name of the scene it came from.
C16_MergedInSceneOrder ==
  Collected =>
    \A t \in 1..Len(EMBEDDED_TYPES) :
      LET collection == EMBEDDED_TYPES[t].collection
          merged == Merged(EMBEDDED_TYPES[t].documentName)
      IN  /\ Len(merged) = Before(collection, Len(mLayouts) + 1)
          /\ \A i \in 1..Len(mLayouts) : \A j \in 1..Len(SourceOf(i).docs[collection]) :
               LET doc == merged[Before(collection, i) + j]
               IN  /\ "_id" \notin DOMAIN doc
                   /\ DOMAIN doc = ((DOMAIN SourceOf(i).docs[collection][j]) \ {"_id"})
                                     \cup {"sourceSceneId", "sourceSceneName"}
                   /\ doc.sourceSceneId = SourceOf(i).id
                   /\ doc.sourceSceneName = SourceOf(i).name

\* two different scenes gave walls: the merged Wall list holds both, in layout order
C16_Witness ==
  /\ Collected
  /\ Len(mLayouts) = 2
  /\ mLayouts[1].sceneId = 2
  /\ mLayouts[2].sceneId = 1
  /\ Len(Merged("Wall")) = 2
  /\ Merged("Wall")[1].sourceSceneName = "Hall"
  /\ Merged("Wall")[2].sourceSceneName = "Cellar"

\* the collections of the single-anchor records: light, sound, token, tile, note, template
AnchorCollections == {"lights", "sounds", "tokens", "tiles", "notes", "templates"}

\* the merged record made from document j of a collection of layout entry i's scene
MergedFrom(collection, i, j) == Merged(DocumentNameOf(collection))[Before(collection, i) + j]

\* C17: in the merged scene a wall [x1, y1, x2, y2] of a scene at offset (dx, dy)
\* is [x1 + dx, y1 + dy, x2 + dx, y2 + dy], and a light, sound, token, tile, note
\* or template at (x, y) is at (x + dx, y + dy).
C17_SegmentsAndAnchorsTranslated ==
  Collected =>
    \A i \in 1..Len(mLayouts) :
      /\ \A j \in 1..Len(SourceOf(i).docs["walls"]) :
           LET c == SourceOf(i).docs["walls"][j].c
           IN  MergedFrom("walls", i, j).c =
                 <<c[1] + OffsetX(i), c[2] + OffsetY(i), c[3] + OffsetX(i), c[4] + OffsetY(i)>>
      /\ \A collection \in AnchorCollections : \A j \in 1..Len(SourceOf(i).docs[collection]) :
           LET doc == SourceOf(i).docs[collection][j]
           IN  /\ doc.x # <<>> => MergedFrom(collection, i, j).x = <<doc.x[1] + OffsetX(i)>>
               /\ doc.y # <<>> => MergedFrom(collection, i, j).y = <<doc.y[1] + OffsetY(i)>>

\* the scene with the wall (10,10)-(50,10) and the token at (5,5), placed at
\* offset (100,200): the wall is (110,210)-(150,210) and the token at (105,205)
C17_Witness ==
  /\ Collected
  /\ Len(mLayouts) = 2
  /\ mLayouts[2].sceneId = 1
  /\ OffsetX(2) = Pix(100)
  /\ OffsetY(2) = Pix(200)
  /\ MergedFrom("walls", 2, 1).c = <<Pix(110), Pix(210), Pix(150), Pix(210)>>
  /\ MergedFrom("tokens", 2, 1).x = <<Pix(105)>>
  /\ MergedFrom("tokens", 2, 1).y = <<Pix(205)>>

C19_RegionShapesTranslated ==
  Collected =>
    \A i \in 1..Len(mLayouts) : \A j \in 1..Len(SourceOf(i).docs["regions"]) :
      LET from == SourceOf(i).docs["regions"][j].shapes
          to == MergedFrom("regions", i, j).shapes
      IN  /\ Len(to) = Len(from)
          /\ \A s \in 1..Len(from) :
               /\ Len(to[s].points) = Len(from[s].points)
               /\ \A k \in 1..Len(from[s].points) :
                    to[s].points[k] =
                      from[s].points[k] + (IF (k - 1) % 2 = 0 THEN OffsetX(i) ELSE OffsetY(i))
               /\ to[s].x = IF from[s].x = <<>> THEN <<>> ELSE <<from[s].x[1] + OffsetX(i)>>
               /\ to[s].y = IF from[s].y = <<>> THEN <<>> ELSE <<from[s].y[1] + OffsetY(i)>>

\* the region shape with points [0,0,4,0,4,4], x = 1 and no y, its scene at
\* offset (100,200): points [100,200,104,200,104,204], x = 101, still no y
C19_Witness ==
  /\ Collected
  /\ Len(mLayouts) = 2
  /\ mLayouts[2].sceneId = 3
  /\ OffsetX(2) = Pix(100)
  /\ OffsetY(2) = Pix(200)
  /\ MergedFrom("regions", 2, 1).shapes[1].points =
       <<Pix(100), Pix(200), Pix(104), Pix(200), Pix(104), Pix(204)>>
  /\ MergedFrom("regions", 2, 1).shapes[1].x = <<Pix(101)>>
  /\ MergedFrom("regions", 2, 1).shapes[1].y = <<>>

GridMismatches(i) ==
  (IF SourceOf(i).grid.size # SourceOf(1).grid.size THEN {"size"} ELSE {})
  \cup (IF SourceOf(i).grid.type # SourceOf(1).grid.type THEN {"type"} ELSE {})

\* C21: the grid warnings are empty exactly when every source scene has the grid
\* size and grid type of the first; every mismatching scene adds one warning for
\* each attribute that differs, naming that scene; and Scene.create is called
\* whatever the warnings are.
C21_GridWarningsNeverBlock ==
  Boxed =>
    /\ (mWarnings = <<>>) <=> (\A i \in 1..Len(mLayouts) : GridMismatches(i) = {})
    /\ Len(mWarnings) =
         Cardinality({ m \in (1..Len(mLayouts)) \X {"size", "type"} : m[2] \in GridMismatches(m[1]) })
    /\ \A i \in 1..Len(mLayouts) : \A kind \in GridMismatches(i) :
         \E w \in 1..Len(mWarnings) :
           mWarnings[w] = [kind |-> kind, subject |-> SourceOf(i).name]
    /\ mScene # <<>>

\* a merge of two scenes that differ in grid size and in grid type: two warnings,
\* and the merged scene was created
C21_Witness ==
  /\ Boxed
  /\ Len(mLayouts) = 2
  /\ GridMismatches(2) = {"size", "type"}
  /\ Len(mWarnings) = 2
  /\ mScene[1].state = "created"

\* ------------------------------------------------- canvas operation claims
\* the bounding box of the rectangles: left, top, width, height
Bounds ==
  LET I == 1..Len(scenes)
      left == CHOOSE v \in { scenes[i].x : i \in I } : \A i \in I : v <= scenes[i].x
      top == CHOOSE v \in { scenes[i].y : i \in I } : \A i \in I : v <= scenes[i].y
      right == CHOOSE v \in { scenes[i].x + scenes[i].width : i \in I } :
                 \A i \in I : v >= scenes[i].x + scenes[i].width
      bottom == CHOOSE v \in { scenes[i].y + scenes[i].height : i \in I } :
                  \A i \in I : v >= scenes[i].y + scenes[i].height
  IN  [left |-> left, top |-> top, width |-> right - left, height |-> bottom - top]

\* C22: for a non-empty rectangle list fitAll sets zoom to
\* max(MIN_ZOOM, min((canvas width - 80) / box width, (canvas height - 80) / box
\* height, MAX_ZOOM)) and the pan so that the centre of the bounding box is drawn
\* at the centre of the canvas; no rectangle changes.
C22_FitAllCentres ==
  [][(FitAll /\ scenes # <<>>) =>
       /\ zoom' = Max2(MIN_ZOOM, Min2(Min2(Div(canvasW - Pix(80), Bounds.width),
                                           Div(canvasH - Pix(80), Bounds.height)), MAX_ZOOM))
       /\ SceneToCanvas(Bounds.left + Div(Bounds.width, Pix(2)), zoom', panX') = Div(canvasW, Pix(2))
       /\ SceneToCanvas(Bounds.top + Div(Bounds.height, Pix(2)), zoom', panY') = Div(canvasH, Pix(2))
       /\ scenes' = scenes]_vars

\* a fitAll, after a drag moved a rectangle off the row setScenes laid out, that
\* left the zoom between the limits
C22_Witness ==
  /\ ev = "fitAll"
  /\ scenes # <<>>
  /\ \E i \in 1..Len(scenes) : scenes[i].y # Gap
  /\ zoom > MIN_ZOOM
  /\ zoom < MAX_ZOOM

\* C23 as claimed: with an empty rectangle list every operation is a no-op: it
\* ends without an error and leaves zoom, pan, the rectangle list and the
\* interaction state as they were.
C23_EmptyNoOps ==
  [][(scenes = <<>> /\ scenes' = <<>>) =>
       /\ ~threw'
       /\ zoom' = zoom
       /\ panX' = panX
       /\ panY' = panY
       /\ dragging' = dragging
       /\ panning' = panning]_vars

\* C27: a wheel notch (deltaY # 0) received while idle, dragging or panning sets
\* zoom to the clamp of zoom minus sign(deltaY) * ZOOM_STEP, anchored at the
\* cursor (pan follows the cursor as in C2), and leaves the drag record, the pan
\* flag and every rectangle as they were.
C27_WheelInEveryState ==
  [][\A p \in WheelPoints, sign \in {-1, 1} :
       Wheel(Pix(p[1]), Pix(p[2]), sign) =>
         /\ zoom' = ClampZoom(zoom - sign * ZOOM_STEP)
         /\ AnchorClose(Pix(p[1]), panX, zoom, panX', zoom')
         /\ AnchorClose(Pix(p[2]), panY, zoom, panY', zoom')
         /\ dragging' = dragging
         /\ panning' = panning
         /\ scenes' = scenes]_vars

\* setScenes, a pointerdown that started a drag, then a wheel notch that changed
\* the zoom while the drag was in progress
C27_Witness ==
  /\ steps = 3
  /\ ev = "wheel"
  /\ dragging # <<>>
  /\ ~panning
  /\ zoom # FitZoom(scenes, canvasW, canvasH)

\* the widths and heights of a rectangle list, by index
Sizes(scn) == [i \in 1..Len(scn) |-> <<scn[i].width, scn[i].height>>]

\* a pointermove is taking the drag branch: a drag of an existing rectangle is in
\* progress and no pan is
DragBranch == dragging # <<>> /\ ~panning /\ dragging[1].index <= Len(scenes)

\* what a drag move with pointer p writes: _computeSnap of the original position
\* plus the world-space pointer delta since drag start
DragWrites(p) ==
  LET d == dragging[1]
  IN  ComputeSnap(scenes, d.index,
                  d.origX + (CanvasToScene(p.x, zoom, panX) - d.startX),
                  d.origY + (CanvasToScene(p.y, zoom, panY) - d.startY),
                  p.shift, snapX, snapY, zoom)

C28_SizesPositive ==
  \A i \in 1..Len(scenes) : scenes[i].width > 0 /\ scenes[i].height > 0

C28_DragStep ==
  [][/\ (DragBranch /\ ev' = "pointermove") =>
          /\ scenes'[dragging[1].index].x = DragWrites(ptr').x
          /\ scenes'[dragging[1].index].y = DragWrites(ptr').y
          /\ Len(scenes') = Len(scenes)
          /\ \A i \in 1..Len(scenes) :
               i # dragging[1].index => scenes'[i] = scenes[i]
          /\ zoom' = zoom /\ panX' = panX /\ panY' = panY
          /\ dragging' = dragging /\ panning' = panning
     /\ ev' # "setScenes" => Sizes(scenes') = Sizes(scenes)]_vars

C29_PanTotal ==
  (panning /\ panFrom # <<>>) =>
    /\ panX - panFrom[1].panX = panStart.x - panFrom[1].x
    /\ panY - panFrom[1].panY = panStart.y - panFrom[1].y

C29_PanStep ==
  [][\A p \in Points, shift \in BOOLEAN :
       (panning /\ PointerMove(Pix(p[1]), Pix(p[2]), shift)) =>
         /\ panX' = panX + (Pix(p[1]) - panStart.x)
         /\ panY' = panY + (Pix(p[2]) - panStart.y)
         /\ zoom' = zoom
         /\ scenes' = scenes]_vars

\* C29: a pointermove while panning adds the screen-space pointer delta since
\* the previous pointer position to (panX, panY), unscaled by the zoom, and
\* leaves zoom and every rectangle as they were; after any sequence of pan moves
\* the pan has changed by the screen displacement of the pointer since they began.
C29_PanAddsScreenDelta == []C29_PanTotal /\ C29_PanStep

\* a pan move over rectangles at a zoom other than 1 that moved the pan on both axes
C29_Witness ==
  /\ ev = "pointermove"
  /\ panning
  /\ panFrom # <<>>
  /\ scenes # <<>>
  /\ zoom # Pix(1)
  /\ panX # panFrom[1].panX
  /\ panY # panFrom[1].panY

\* the cases of the last move whose edge distance is strictly below
\* SNAP_THRESHOLD / zoom, in loop order
Below(z) == SelectSeq(MoveCases, LAMBDA c : c.dist < Div(SNAP_THRESHOLD, z))

\* C30: after a snapping drag move the guides are those of the cases whose edge
\* distance is strictly below SNAP_THRESHOLD / zoom, one guide per such case and
\* none for a case at or above that distance; an axis with no such case keeps
\* the proposed coordinate, an axis with one takes the snap of one of them.
C30_StrictThreshold ==
  Snapping =>
    /\ snapGuides = [k \in 1..Len(Below(zoom)) |-> [axis |-> Below(zoom)[k].axis, value |-> Below(zoom)[k].guide]]
    /\ \A axis \in {"x", "y"} :
         LET on == { k \in 1..Len(Below(zoom)) : Below(zoom)[k].axis = axis }
         IN  IF on = {}
             THEN Coord(Dragged, axis) = Coord(MoveProposed, axis)
             ELSE \E k \in on : Coord(Dragged, axis) = Below(zoom)[k].snap

\* a move at zoom 1 (threshold 12) with one case exactly at the threshold, which
\* left no guide, and one case matched at a distance of 6 or more, which zoom 2
\* (threshold 6) would not match
C30_Witness ==
  /\ Snapping
  /\ zoom = Pix(1)
  /\ \E k \in 1..Len(MoveCases) :
       /\ MoveCases[k].dist = Div(SNAP_THRESHOLD, zoom)
       /\ \A g \in Guides : ~(g.axis = MoveCases[k].axis /\ g.value = MoveCases[k].guide)
  /\ \E k \in 1..Len(Below(zoom)) : Below(zoom)[k].dist >= Div(SNAP_THRESHOLD, Pix(2))
  /\ Len(Below(Pix(2))) < Len(Below(zoom))

\* ------------------------------------------------------------------ the app
\* cap on the #onMerge invocations followed that await or have called mergeScenes
MaxMerges == 1

\* a sequence without its entry i
Without(seq, i) == [k \in 1..(Len(seq) - 1) |-> IF k < i THEN seq[k] ELSE seq[k + 1]]

\* game.scenes.contents
Contents == [k \in 1..Cardinality(DOMAIN world) |-> world[k]]

\* getSceneInfo(scene), as setScenes reads it
GetSceneInfo(scene) ==
  [sceneId |-> scene.id, width |-> scene.sceneWidth, height |-> scene.sceneHeight,
   src |-> scene.background]

\* _initLayoutCanvas: game.scenes.contents.filter(selected).map(getSceneInfo)
SelectedScenes ==
  LET chosen == SelectSeq(Contents, LAMBDA scene : scene.id \in selected)
  IN  [k \in 1..Len(chosen) |-> GetSceneInfo(chosen[k])]

\* getLayout(): one fresh object per rectangle, in list order
GetLayout(scn) ==
  [i \in 1..Len(scn) |->
     [sceneId |-> scn[i].sceneId, x |-> scn[i].x, y |-> scn[i].y,
      width |-> scn[i].width, height |-> scn[i].height]]

\* mutant of Held: the entries are the canvas's own rectangle objects
HeldAliased(layout, scn) ==
  IF Len(scn) = Len(layout)
  THEN [i \in 1..Len(layout) |-> [layout[i] EXCEPT !.x = scn[i].x, !.y = scn[i].y]]
  ELSE layout

\* a list getLayout returned, read when the canvas rectangles are scn: its
\* entries are objects of their own, which no canvas handler writes
Held(layout, scn) == layout

\* _initLayoutCanvas(): new LayoutCanvas (constructor, _bindEvents),
\* setScenes(selectedScenes) with its _loadImage calls and fitAll, then the
\* snap flags of the app.  Callbacks still pending on an earlier canvas are not
\* followed.  A canvas the app still holds is replaced without destroy().
InitCanvas(sx, sy, used) ==
  LET placed == RowLayout(SelectedScenes, 1, Gap)
      view == FitView(placed, canvasW, canvasH, [zoom |-> Pix(1), panX |-> 0, panY |-> 0])
  IN  /\ scenes' = placed
      /\ zoom' = view.zoom
      /\ panX' = view.panX
      /\ panY' = view.panY
      /\ dragging' = <<>>
      /\ panning' = FALSE
      /\ panStart' = [x |-> 0, y |-> 0]
      /\ panFrom' = <<>>
      /\ hoveredIndex' = 0
      /\ tooltipShown' = FALSE
      /\ frame' = FALSE
      /\ snapX' = sx
      /\ snapY' = sy
      /\ snapGuides' = <<>>
      /\ imageCache' = Loadable(placed)
      /\ loading' = Loadable(placed)
      /\ attached' = TRUE
      /\ live' = TRUE
      /\ ev' = "setScenes"
      /\ notified' = 0
      /\ threw' = FALSE
      /\ steps' = steps + used
      /\ orphans' = IF live /\ attached THEN orphans + 1 ELSE orphans
      /\ UNCHANGED <<sizeVars, ptr>>

\* _initLayoutCanvas() run by the render of the layout step
InitLayoutCanvas == InitCanvas(appSnapX, appSnapY, 0)

\* destroy(): _removeEvents() and the tooltip node taken out of the document;
\* _imageCache, the pending Image loads and the pending animation frame stay
Destroy ==
  /\ attached' = FALSE
  /\ ev' = "destroy"
  /\ notified' = 0
  /\ threw' = FALSE
  /\ UNCHANGED <<scenes, viewVars, dragVars, panFrom, hoverVars, snapVars, snapGuides, cacheVars, sizeVars, ptr, steps>>

\* #onToggleScene for the row of scene id, shown in the select step
ToggleScene(id) ==
  /\ rendered
  /\ step = "select"
  /\ selected' = IF id \in selected THEN selected \ {id} ELSE selected \cup {id}
  /\ UNCHANGED <<rendered, step, live, merges, mergeCalls, appSnapX, appSnapY, copy, orphans, toolVars, zoomPercent, canvasVars, mergeVars>>

\* #onSelectAll
SelectAll ==
  /\ rendered
  /\ step = "select"
  /\ selected' = { Contents[k].id : k \in 1..Len(Contents) }
  /\ UNCHANGED <<rendered, step, live, merges, mergeCalls, appSnapX, appSnapY, copy, orphans, toolVars, zoomPercent, canvasVars, mergeVars>>

\* #onDeselectAll
DeselectAll ==
  /\ rendered
  /\ step = "select"
  /\ selected' = {}
  /\ UNCHANGED <<rendered, step, live, merges, mergeCalls, appSnapX, appSnapY, copy, orphans, toolVars, zoomPercent, canvasVars, mergeVars>>

\* #onGoToLayout: with fewer than 2 scenes selected a warning and nothing else;
\* otherwise the layout step, whose render runs _initLayoutCanvas
GoToLayout ==
  /\ rendered
  /\ step = "select"
  /\ IF Cardinality(selected) < 2
     THEN UNCHANGED <<step, live, orphans, canvasVars>>
     ELSE step' = "layout" /\ InitLayoutCanvas
  /\ UNCHANGED <<rendered, selected, merges, mergeCalls, appSnapX, appSnapY, copy, toolVars, zoomPercent, mergeVars>>

\* #onGoToSelect
GoToSelect ==
  /\ rendered
  /\ step = "layout"
  /\ IF live THEN Destroy ELSE UNCHANGED canvasVars
  /\ live' = FALSE
  /\ step' = "select"
  /\ UNCHANGED orphans
  /\ UNCHANGED <<rendered, selected, merges, mergeCalls, appSnapX, appSnapY, copy, toolVars, zoomPercent, mergeVars>>

\* close() and its _onClose
CloseApp ==
  /\ IF live THEN Destroy ELSE UNCHANGED canvasVars
  /\ live' = FALSE
  /\ rendered' = FALSE

\* the window's close button
Close ==
  /\ rendered
  /\ CloseApp
  /\ UNCHANGED <<step, selected, merges, mergeCalls, appSnapX, appSnapY, copy, orphans, toolVars, zoomPercent, mergeVars>>

\* #onMerge up to its first await: no canvas, or a layout of fewer than 2
\* entries, ends it; otherwise the confirmation dialog is awaited, with the
\* list getLayout() returned held by the invocation
OnMergeUpTo(n) ==
  /\ rendered
  /\ step = "layout"
  /\ Len(merges) + Len(mergeCalls) < n
  /\ merges' = IF live /\ Len(GetLayout(scenes)) >= 2
               THEN Append(merges, [pc |-> "confirm", layout |-> GetLayout(scenes)])
               ELSE merges
  /\ UNCHANGED <<rendered, step, selected, live, mergeCalls, appSnapX, appSnapY, copy, orphans, toolVars, zoomPercent, canvasVars, mergeVars>>

\* #onMerge, followed for MaxMerges clicks
OnMerge == OnMergeUpTo(MaxMerges)

\* mutant of ConfirmSettled: the answer of the dialog is not looked at
ConfirmSettledAnyAnswer(i, confirmed) ==
  /\ merges[i].pc = "confirm"
  /\ merges' = [merges EXCEPT ![i].pc = "merging"]
  /\ mergeCalls' = Append(mergeCalls, [layout |-> Held(merges[i].layout, scenes), confirmed |-> confirmed])
  /\ UNCHANGED <<rendered, step, selected, live, appSnapX, appSnapY, copy, orphans, toolVars, zoomPercent, canvasVars, mergeVars>>

\* #onMerge resumed when DialogV2.confirm settles: declined ends it, confirmed
\* calls mergeScenes(layout) and awaits it
ConfirmSettled(i, confirmed) ==
  /\ merges[i].pc = "confirm"
  /\ merges' = IF confirmed THEN [merges EXCEPT ![i].pc = "merging"] ELSE Without(merges, i)
  /\ mergeCalls' = IF confirmed
                   THEN Append(mergeCalls, [layout |-> Held(merges[i].layout, scenes), confirmed |-> confirmed])
                   ELSE mergeCalls
  /\ UNCHANGED <<rendered, step, selected, live, appSnapX, appSnapY, copy, orphans, toolVars, zoomPercent, canvasVars, mergeVars>>

\* #onMerge resumed when mergeScenes settles: resolved, the merged scene is
\* viewed and the app closed; rejected, an error is shown
MergeSettled(i, ok) ==
  /\ merges[i].pc = "merging"
  /\ merges' = Without(merges, i)
  /\ IF ok THEN CloseApp ELSE UNCHANGED <<rendered, live, canvasVars>>
  /\ UNCHANGED <<step, selected, mergeCalls, appSnapX, appSnapY, copy, orphans, toolVars, zoomPercent, mergeVars>>

\* img.onload of the Image loading for scene id: this.render()
ImageLoaded(id) ==
  /\ Handled("imageload", 0, FALSE)
  /\ id \in loading
  /\ loading' = loading \ {id}
  /\ UNCHANGED <<scenes, viewVars, dragVars, panFrom, hoverVars, snapVars, snapGuides, imageCache, sizeVars, ptr>>
  /\ Readout("imageload", 0)

\* img.onerror of the Image loading for scene id: nothing
ImageFailed(id) ==
  /\ Handled("imageerror", 0, FALSE)
  /\ id \in loading
  /\ loading' = loading \ {id}
  /\ UNCHANGED <<scenes, viewVars, dragVars, panFrom, hoverVars, snapVars, snapGuides, imageCache, sizeVars, ptr>>
  /\ Readout("imageerror", 0)

\* the requestAnimationFrame callback of _showTooltip: this._tooltip is still
\* set, so the tooltip node is measured and moved
TooltipFrame ==
  /\ Handled("tooltipframe", 0, FALSE)
  /\ frame
  /\ frame' = FALSE
  /\ UNCHANGED <<scenes, viewVars, dragVars, panFrom, hoveredIndex, tooltipShown, snapVars, snapGuides, cacheVars, sizeVars, ptr>>
  /\ Readout("tooltipframe", 0)

\* the toolbar button has opened the app: the select step, nothing selected, no canvas
AppOpened ==
  /\ rendered = TRUE
  /\ step = "select"
  /\ selected = {}
  /\ live = FALSE
  /\ merges = <<>>
  /\ mergeCalls = <<>>
  /\ appSnapX = TRUE
  /\ appSnapY = TRUE
  /\ zoomPercent = 100
  /\ copy = "SceneStitcherApp.mjs"
  /\ orphans = 0
  /\ apps = <<>>
  /\ appInstance = 0

\* no canvas exists yet; two canvas callbacks are followed
InitApp ==
  /\ scenes = <<>>
  /\ zoom = Pix(1)
  /\ panX = 0
  /\ panY = 0
  /\ dragging = <<>>
  /\ panning = FALSE
  /\ panStart = [x |-> 0, y |-> 0]
  /\ panFrom = <<>>
  /\ hoveredIndex = 0
  /\ snapX = TRUE
  /\ snapY = TRUE
  /\ snapGuides = <<>>
  /\ imageCache = {}
  /\ loading = {}
  /\ tooltipShown = FALSE
  /\ frame = FALSE
  /\ attached = FALSE
  /\ canvasW = Pix(400)
  /\ canvasH = Pix(300)
  /\ ev = "new"
  /\ ptr = [x |-> 0, y |-> 0, shift |-> FALSE, moves |-> 0]
  /\ notified = 0
  /\ threw = FALSE
  /\ steps = MaxSteps - 2
  /\ MergeIdle
  /\ AppOpened

\* pointer positions in the app, in canvas pixels
AppPoints == { <<200, 150>>, <<263, 161>> }

\* the DOM events of the canvas reach it while its listeners are attached
NextApp ==
  \/ \E id \in DOMAIN world : ToggleScene(id)
  \/ SelectAll
  \/ DeselectAll
  \/ GoToLayout
  \/ GoToSelect
  \/ Close
  \/ OnMerge
  \/ \E i \in 1..Len(merges), confirmed \in BOOLEAN : ConfirmSettled(i, confirmed)
  \/ \E i \in 1..Len(merges), ok \in BOOLEAN : MergeSettled(i, ok)
  \/ \E id \in loading : ImageLoaded(id)
  \/ \E id \in loading : ImageFailed(id)
  \/ TooltipFrame
  \/ attached /\ \E p \in AppPoints : PointerDown(Pix(p[1]), Pix(p[2]), 0, FALSE)
  \/ attached /\ \E p \in AppPoints : PointerMove(Pix(p[1]), Pix(p[2]), FALSE)
  \/ attached /\ PointerUp("pointerup")

SpecApp == InitApp /\ [][NextApp]_vars

\* ------------------------------------------------------------------ app claims
\* the entries getLayout() makes of the rectangles as they are now
Projection ==
  [i \in 1..Len(scenes) |->
     [sceneId |-> scenes[i].sceneId, x |-> scenes[i].x, y |-> scenes[i].y,
      width |-> scenes[i].width, height |-> scenes[i].height]]

Destroyed == ~attached /\ ev # "new"

\* C25 as claimed: once destroy() has returned no callback of the canvas runs
\* (the last call on it remains destroy), and the image cache holds nothing.
C25_QuietAfterDestroy ==
  Destroyed => (ev = "destroy" /\ imageCache = {} /\ loading = {})

\* C26: mergeScenes is only called with a layout of 2 or more entries and after
\* the operator confirmed; the layout step is entered only with 2 or more
\* scenes selected; an invocation of #onMerge whose layout has fewer than 2
\* entries awaits nothing, and a declined confirmation makes no call.
C26_CallsGuarded ==
  \A k \in 1..Len(mergeCalls) : Len(mergeCalls[k].layout) >= 2 /\ mergeCalls[k].confirmed

C26_StepsGuarded ==
  [][/\ (step = "select" /\ step' = "layout") => Cardinality(selected) >= 2
     /\ Len(merges') > Len(merges) => Len(Projection) >= 2
     /\ Len(mergeCalls') > Len(mergeCalls) =>
          \E i \in 1..Len(merges) : merges[i].pc = "confirm" /\ Len(merges[i].layout) >= 2]_vars

C26_MergeGuarded == []C26_CallsGuarded /\ C26_StepsGuarded

\* mergeScenes has been called for the two selected scenes, one of them dragged
\* away from where setScenes put it
C26_Witness ==
  /\ Len(mergeCalls) = 1
  /\ Cardinality(selected) = 2
  /\ Len(mergeCalls[1].layout) = 2
  /\ \A i \in 1..2 : mergeCalls[1].layout[i].sceneId = SelectedScenes[i].sceneId
  /\ mergeCalls[1].layout # GetLayout(RowLayout(SelectedScenes, 1, Gap))

\* ------------------------------------------------------ snap engine claims
\* the flag of an axis
AxisOn(axis) == IF axis = "x" THEN snapX ELSE snapY

\* the cases of an axis, among those of both axes, whose distance is below the threshold
BothBelow(axis) ==
  SelectSeq(MoveCasesBoth, LAMBDA c : c.axis = axis /\ c.dist < Div(SNAP_THRESHOLD, zoom))

\* the guides of an axis, in the order they were pushed
GuidesOf(axis) == SelectSeq(snapGuides, LAMBDA g : g.axis = axis)

\* C31: after a drag move without shift, a disabled axis keeps the proposed
\* coordinate and has no guide, whatever the other rectangles are; an enabled
\* axis has the coordinate and the guides it has with both axes enabled.
C31_AxesIndependent ==
  (DragMoved /\ ~ptr.shift) =>
    \A axis \in {"x", "y"} :
      IF AxisOn(axis)
      THEN /\ GuidesOf(axis) = [k \in 1..Len(BothBelow(axis)) |-> [axis |-> axis, value |-> BothBelow(axis)[k].guide]]
           /\ Coord(Dragged, axis) = IF BothBelow(axis) = <<>>
                                     THEN Coord(MoveProposed, axis)
                                     ELSE BothBelow(axis)[Len(BothBelow(axis))].snap
      ELSE /\ GuidesOf(axis) = <<>>
           /\ Coord(Dragged, axis) = Coord(MoveProposed, axis)

\* snapX off and snapY on: an x case is within the threshold and x stays as
\* proposed, while y was moved onto an edge
C31_Witness ==
  /\ DragMoved
  /\ ~ptr.shift
  /\ ~snapX
  /\ snapY
  /\ BothBelow("x") # <<>>
  /\ BothBelow("x")[Len(BothBelow("x"))].snap # MoveProposed.x
  /\ Dragged.x = MoveProposed.x
  /\ Dragged.y # MoveProposed.y
  /\ GuidesOf("y") # <<>>

\* C35: while snapping is active, the corrected coordinate of each axis is
\* strictly less than SNAP_THRESHOLD / zoom away from the proposed one, also
\* when several cases match one after the other.
C35_SnapWithinThreshold ==
  Snapping =>
    \A axis \in {"x", "y"} :
      Abs(Coord(Dragged, axis) - Coord(MoveProposed, axis)) < Div(SNAP_THRESHOLD, zoom)

\* two cases of the x axis matched with different corrections and the
\* rectangle was moved off the proposed x
C35_Witness ==
  /\ Snapping
  /\ Len(BothBelow("x")) >= 2
  /\ snapX
  /\ \E j, k \in 1..Len(BothBelow("x")) : BothBelow("x")[j].snap # BothBelow("x")[k].snap
  /\ Dragged.x # MoveProposed.x

\* the edges of the dragged rectangle on an axis, at its corrected position
EdgesOf(r, axis) == IF axis = "x" THEN {r.x, r.x + r.width} ELSE {r.y, r.y + r.height}

\* C36: every guide left after a drag move lies on an edge of the dragged
\* rectangle at its corrected position.
C36_GuidesOnEdges ==
  DragMoved => \A g \in Guides : g.value \in EdgesOf(Dragged, g.axis)

\* the rectangle list as it was when the drag began: the dragged rectangle back
\* at the position captured by the pointerdown
Undragged ==
  [scenes EXCEPT ![dragging[1].index].x = dragging[1].origX,
                 ![dragging[1].index].y = dragging[1].origY]

\* the position a single pointermove to the last pointer position gives,
\* computed from the values captured at drag start alone
FromStart ==
  LET d == dragging[1]
  IN  ComputeSnap(Undragged, d.index,
                  d.origX + (Div(ptr.x - panX, zoom) - d.startX),
                  d.origY + (Div(ptr.y - panY, zoom) - d.startY),
                  ptr.shift, snapX, snapY, zoom)

\* C37: after any pointermove of a drag, the dragged rectangle is where a
\* single move from the drag-start values to the current pointer puts it:
\* earlier moves of the same drag leave no drift and no sticky snap.
C37_NoDrift ==
  DragMoved => Dragged.x = FromStart.x /\ Dragged.y = FromStart.y

\* the second move of a drag, the rectangle away from where the drag began
C37_Witness ==
  /\ DragMoved
  /\ ptr.moves >= 2
  /\ Dragged.x # dragging[1].origX

\* ------------------------------------------------------ hit-test claim
\* rectangle r holds the scene-space point (x, y), borders included
Holds(r, x, y) == x >= r.x /\ x <= r.x + r.width /\ y >= r.y /\ y <= r.y + r.height

\* the rectangles under the canvas point (cx, cy) in the current view
Under(cx, cy) ==
  { i \in 1..Len(scenes) :
      Holds(scenes[i], Div(cx - panX, zoom), Div(cy - panY, zoom)) }

\* a pointerdown of the primary button without ctrl at p: with rectangles under
\* the point, a drag of the one no other of them lies above begins and captures
\* its current position; with none, neither a drag nor a pan begins
TopmostDown(p) ==
  IF Under(Pix(p[1]), Pix(p[2])) = {}
  THEN dragging' = dragging /\ panning' = panning
  ELSE /\ Len(dragging') = 1
       /\ dragging'[1].index \in Under(Pix(p[1]), Pix(p[2]))
       /\ \A j \in Under(Pix(p[1]), Pix(p[2])) : j <= dragging'[1].index
       /\ dragging'[1].origX = scenes[dragging'[1].index].x
       /\ dragging'[1].origY = scenes[dragging'[1].index].y
       /\ panning' = panning

\* C32: a primary-button pointerdown without the pan modifier starts dragging
\* the rectangle of the highest index among those under the pointer, capturing
\* its current position; on a point under no rectangle the canvas stays as it was.
C32_TopmostHit ==
  [][\A p \in Points : PointerDown(Pix(p[1]), Pix(p[2]), 0, FALSE) => TopmostDown(p)]_vars

\* a drag just begun on a point that a rectangle of a lower index covers too
C32_Witness ==
  /\ ev = "pointerdown"
  /\ dragging # <<>>
  /\ ptr.moves = 0
  /\ dragging[1].index <= Len(scenes)
  /\ dragging[1].origX = Dragged.x
  /\ dragging[1].origY = Dragged.y
  /\ Holds(Dragged, dragging[1].startX, dragging[1].startY)
  /\ \E j \in 1..(dragging[1].index - 1) : Holds(scenes[j], dragging[1].startX, dragging[1].startY)

\* ------------------------------------------------------ background claim
\* the normalised layout entries whose scene has a background, in layout order
WithBackground ==
  SelectSeq(ComputeBoundingBox(mLayouts).normalisedLayouts,
            LAMBDA l : world[l.sceneId].background)

\* one background record per layout entry with a background, at the entry's
\* normalised position, locked and tagged with the source scene
BackgroundsPlaced ==
  /\ Len(mTiles) = Len(WithBackground)
  /\ \A k \in 1..Len(mTiles) :
       /\ mTiles[k].x = WithBackground[k].x
       /\ mTiles[k].y = WithBackground[k].y
       /\ mTiles[k].locked
       /\ mTiles[k].isBackground
       /\ mTiles[k].sourceSceneId = WithBackground[k].sceneId
       /\ mTiles[k].sourceSceneName = world[WithBackground[k].sceneId].name

\* the stacking orders of the records copied from the source scenes
CopiedSorts ==
  UNION { { mEmbedded[j].docs[i].sort : i \in 1..Len(mEmbedded[j].docs) } :
            j \in { j \in 1..Len(mEmbedded) : mEmbedded[j].documentName = "Tile" } }

\* C33: once the records are collected there is exactly one background record
\* per layout entry whose scene has a background (none for the others), at the
\* entry's normalised position, locked, tagged with the source scene id and
\* name, and its stacking order is strictly below that of every tile copied
\* from the source scenes.
C33_BackgroundsBeneath ==
  Collected =>
    /\ BackgroundsPlaced
    /\ \A k \in 1..Len(mTiles) : \A sort \in CopiedSorts : mTiles[k].sort < sort

\* ------------------------------------------------------ the toolbar button
\* SceneStitcherApp instances followed from the toolbar button
MaxApps == 4

\* the windows of apps with instance i in front, if it is i that is shown
Fronted(i) == [k \in 1..Len(apps) |-> [apps[k] EXCEPT !.front = (k = i)]]

\* the onClick of the tool button: appInstance?.rendered is looked at, the
\* rendered instance is brought to front, otherwise a new SceneStitcherApp is
\* made and render(true) called, which settles later (_prepareContext is async)
ToolClick ==
  /\ IF appInstance # 0 /\ apps[appInstance].state = "rendered"
     THEN /\ ~apps[appInstance].front
          /\ apps' = Fronted(appInstance)
          /\ UNCHANGED appInstance
     ELSE /\ Len(apps) < MaxApps
          /\ apps' = Append(apps, [state |-> "rendering", front |-> FALSE])
          /\ appInstance' = Len(apps) + 1
  /\ UNCHANGED <<rendered, step, selected, live, merges, mergeCalls, appSnapX, appSnapY, copy, orphans, zoomPercent, canvasVars, mergeVars>>

\* the render of instance i settles: the window is in the document, in front
RenderSettled(i) ==
  /\ apps[i].state = "rendering"
  /\ apps' = [Fronted(i) EXCEPT ![i].state = "rendered"]
  /\ UNCHANGED <<appInstance, rendered, step, selected, live, merges, mergeCalls, appSnapX, appSnapY, copy, orphans, zoomPercent, canvasVars, mergeVars>>

\* close() of instance i: the close button of its window, or a finished merge
WindowClosed(i) ==
  /\ apps[i].state = "rendered"
  /\ apps' = [apps EXCEPT ![i] = [state |-> "closed", front |-> FALSE]]
  /\ UNCHANGED <<appInstance, rendered, step, selected, live, merges, mergeCalls, appSnapX, appSnapY, copy, orphans, zoomPercent, canvasVars, mergeVars>>

\* another window of the host takes the front
OtherWindow ==
  /\ \E k \in 1..Len(apps) : apps[k].front
  /\ apps' = Fronted(0)
  /\ UNCHANGED <<appInstance, rendered, step, selected, live, merges, mergeCalls, appSnapX, appSnapY, copy, orphans, zoomPercent, canvasVars, mergeVars>>

\* the module is loaded: appInstance = null
InitTool == CanvasInit /\ attached = FALSE /\ MergeIdle /\ NoApp

NextTool ==
  \/ ToolClick
  \/ \E i \in 1..Len(apps) : RenderSettled(i)
  \/ \E i \in 1..Len(apps) : WindowClosed(i)
  \/ OtherWindow

SpecTool == InitTool /\ [][NextTool]_vars

\* the instances whose window is rendered
RenderedApps == { i \in 1..Len(apps) : apps[i].state = "rendered" }

\* a click of the tool button on a rendered instance makes no new one and
\* brings that one to front; a new instance is made only when appInstance is
\* null or not rendered
C34_ClickReuses ==
  [][/\ (appInstance # 0 /\ apps[appInstance].state = "rendered") =>
          /\ Len(apps') = Len(apps)
          /\ appInstance' = appInstance
     /\ Len(apps') > Len(apps) =>
          (appInstance = 0 \/ apps[appInstance].state # "rendered")]_vars

\* C34: at most one SceneStitcherApp instance is rendered at any time; the
\* tool button re-shows the rendered instance and makes a new one only when
\* none is rendered.
C34_OneRendered ==
  [](Cardinality(RenderedApps) <= 1) /\ C34_ClickReuses

\* ------------------------------------------------------ the layout toolbar
\* the copies of the app class in the repository
Copies == {"SceneStitcherApp.mjs", "part_000"}

\* one more handler invocation, of call e, that threw nothing
Counted(e) ==
  /\ steps < MaxSteps
  /\ steps' = steps + 1
  /\ ev' = e
  /\ notified' = 0
  /\ threw' = FALSE

\* this.render() of the app in the layout step: _onRender runs
\* _initLayoutCanvas again, with the snap flags sx, sy of the app
Rerender(sx, sy) ==
  /\ steps < MaxSteps
  /\ InitCanvas(sx, sy, 1)

\* _snapX after the toggle of mode "x", "y" or "both"
ToggledX(mode) ==
  CASE mode = "x" -> ~appSnapX
    [] mode = "both" -> ~(appSnapX /\ appSnapY)
    [] OTHER -> appSnapX

\* _snapY after the toggle
ToggledY(mode) ==
  CASE mode = "y" -> ~appSnapY
    [] mode = "both" -> ~(appSnapX /\ appSnapY)
    [] OTHER -> appSnapY

\* #onToggleSnapX, #onToggleSnapY, #onToggleSnapBoth: the flags of the app, then
\* those of the canvas and its render(); SceneStitcherApp.mjs ends with
\* _updateToolbarState(), part_000 with this.render()
ToggleSnap(mode) ==
  /\ rendered
  /\ step = "layout"
  /\ appSnapX' = ToggledX(mode)
  /\ appSnapY' = ToggledY(mode)
  /\ IF copy = "part_000"
     THEN Rerender(ToggledX(mode), ToggledY(mode))
     ELSE IF live
          THEN /\ Counted("setSnap")
               /\ snapX' = IF mode \in {"x", "both"} THEN ToggledX(mode) ELSE snapX
               /\ snapY' = IF mode \in {"y", "both"} THEN ToggledY(mode) ELSE snapY
               /\ UNCHANGED <<scenes, viewVars, dragVars, panFrom, hoverVars, snapGuides, cacheVars, sizeVars, attached, ptr, live, orphans>>
          ELSE UNCHANGED <<canvasVars, live, orphans>>
  /\ UNCHANGED <<rendered, step, selected, merges, mergeCalls, copy, toolVars, zoomPercent, mergeVars>>

\* the zoom of the canvas after its zoomIn(), zoomOut() or fitAll()
ZoomAfter(kind) ==
  CASE kind = "zoomIn" -> ZoomView(zoom + ZOOM_STEP, Div(canvasW, Pix(2)), Div(canvasH, Pix(2)), zoom, panX, panY).zoom
    [] kind = "zoomOut" -> ZoomView(zoom - ZOOM_STEP, Div(canvasW, Pix(2)), Div(canvasH, Pix(2)), zoom, panX, panY).zoom
    [] OTHER -> FitView(scenes, canvasW, canvasH, [zoom |-> zoom, panX |-> panX, panY |-> panY]).zoom

\* #onZoomIn, #onZoomOut, #onFitAll: the call of the canvas, then _zoomPercent;
\* SceneStitcherApp.mjs ends with _updateZoomDisplay(), part_000 with this.render()
BarZoom(kind) ==
  /\ rendered
  /\ step = "layout"
  /\ live
  /\ IF copy = "part_000"
     THEN /\ Rerender(appSnapX, appSnapY)
          /\ zoomPercent' = Percent(ZoomAfter(kind))
          /\ UNCHANGED <<rendered, step, selected, merges, mergeCalls, appSnapX, appSnapY, copy, toolVars, mergeVars>>
     ELSE CASE kind = "zoomIn" -> ZoomIn
            [] kind = "zoomOut" -> ZoomOut
            [] OTHER -> FitAll

\* the app in the select step with scenes selected, no canvas yet
BarOpened ==
  /\ rendered = TRUE
  /\ step = "select"
  /\ selected \in { {1, 2}, {2, 3}, {1, 2, 3} }
  /\ live = FALSE
  /\ merges = <<>>
  /\ mergeCalls = <<>>
  /\ appSnapX = TRUE
  /\ appSnapY = TRUE
  /\ zoomPercent = 100
  /\ copy \in Copies
  /\ orphans = 0
  /\ apps = <<>>
  /\ appInstance = 0

InitBar == CanvasInit /\ attached = FALSE /\ MergeIdle /\ BarOpened

\* the layout step: its toolbar, and the pointer and the wheel on the canvas
NextBar ==
  \/ GoToLayout
  \/ \E mode \in {"x", "y", "both"} : ToggleSnap(mode)
  \/ \E kind \in {"zoomIn", "zoomOut", "fitAll"} : BarZoom(kind)
  \/ attached /\ \E p \in AppPoints, sign \in WheelSigns : Wheel(Pix(p[1]), Pix(p[2]), sign)
  \/ attached /\ \E p \in AppPoints : PointerDown(Pix(p[1]), Pix(p[2]), 0, FALSE)
  \/ attached /\ \E p \in AppPoints : PointerMove(Pix(p[1]), Pix(p[2]), FALSE)
  \/ attached /\ PointerUp("pointerup")

SpecBar == InitBar /\ [][NextBar]_vars

\* C38: whenever the app holds a canvas, _zoomPercent is round(zoom * 100):
\* right after the canvas is made and fitted by setScenes, after a wheel zoom
\* and after the toolbar zoomIn, zoomOut and fitAll.
C38_ReadoutFollowsZoom ==
  (rendered /\ live) => zoomPercent = Percent(zoom)

\* a step of one of the six toolbar actions
ToolbarStep ==
  \/ \E mode \in {"x", "y", "both"} : ToggleSnap(mode)
  \/ \E kind \in {"zoomIn", "zoomOut", "fitAll"} : BarZoom(kind)

\* C39: a toolbar action (toggleSnapX, toggleSnapY, toggleSnapBoth, zoomIn,
\* zoomOut, fitAll) in the layout step makes no new LayoutCanvas and moves no
\* rectangle: the app keeps its canvas, that canvas alone has listeners
\* attached, and the arrangement is as it was.
C39_ToolbarKeepsCanvas ==
  [][ToolbarStep =>
       /\ scenes' = scenes
       /\ live' = live
       /\ attached' = attached
       /\ orphans' = orphans
       /\ orphans' = 0]_vars

\* clicks of the merge button followed when the button is clicked again while
\* an earlier invocation is awaiting
MaxRace == 2

\* the layout step with the merge button clicked up to MaxRace times
NextRace ==
  \/ GoToLayout
  \/ OnMergeUpTo(MaxRace)
  \/ \E i \in 1..Len(merges), confirmed \in BOOLEAN : ConfirmSettled(i, confirmed)
  \/ \E i \in 1..Len(merges), ok \in BOOLEAN : MergeSettled(i, ok)
  \/ attached /\ \E p \in AppPoints : PointerDown(Pix(p[1]), Pix(p[2]), 0, FALSE)
  \/ attached /\ \E p \in AppPoints : PointerMove(Pix(p[1]), Pix(p[2]), FALSE)
  \/ attached /\ PointerUp("pointerup")

SpecRace == InitBar /\ [][NextRace]_vars

\* the #onMerge invocations whose mergeScenes call is awaited
Merging == { i \in 1..Len(merges) : merges[i].pc = "merging" }

\* C40: at most one merge is in progress per app at any time: a merge action
\* triggered while an earlier mergeScenes call is awaited starts no second one.
C40_OneMergeAtATime == Cardinality(Merging) <= 1

====
